---- MODULE Spec2Model ----
(***************************************************************************)
(* n8n-nodes-leapter: the execute handlers of the Leapter node and of the  *)
(* Leapter Tool node, with the helpers they call.                          *)
(*                                                                         *)
(* Strings are sequences of tokens: a token is a run of characters that    *)
(* no pattern of the code cuts in two ("/", "::", "models", "http://e").   *)
(* Concatenation is \o.  The value undefined of JavaScript is the one     *)
(* token Undefined, which no string of the model contains.                 *)
(***************************************************************************)
EXTENDS Naturals, Integers, Sequences, FiniteSets, TLC

\* ------------------------------------------------------------------ bounds
MaxItems == 3

\* --------------------------------------------------------- JavaScript values
Undefined == <<"#undefined">>

EmptyStr == <<>>

\* a value is truthy when it is neither undefined nor the empty string
Truthy(s) == s # Undefined /\ s # EmptyStr

\* a || b
JsOr(a, b) == IF Truthy(a) THEN a ELSE b

\* `${s}`: undefined prints as the word undefined
Tpl(s) == IF s = Undefined THEN <<"undefined">> ELSE s

\* values stored under a key of a json object, all of one shape
JVal(t, s, n, r, l) == [t |-> t, s |-> s, n |-> n, runId |-> r, editorLink |-> l]
JStr(s) == JVal("string", s, 0, EmptyStr, EmptyStr)
JNum(n) == JVal("number", EmptyStr, n, EmptyStr, EmptyStr)
JArr(s) == JVal("array", s, 0, EmptyStr, EmptyStr)
JNull == JVal("null", EmptyStr, 0, EmptyStr, EmptyStr)
JMeta(r, l) == JVal("object", EmptyStr, 0, r, l)

JParsed(text) == JVal("parsed", text, 0, EmptyStr, EmptyStr)

\* obj.key of an object whose values under that key are strings:
\* undefined when the key is absent
Field(obj, key) == IF key \in DOMAIN obj THEN obj[key].s ELSE Undefined

EmptyObj == [k \in {} |-> JNull]

\* { ...a, ...b }: the keys of b win
Spread(a, b) == [k \in (DOMAIN a) \cup (DOMAIN b) |-> IF k \in DOMAIN b THEN b[k] ELSE a[k]]

\* -------------------------------------------------------------- strings
RECURSIVE IndexOf(_, _, _)
\* first position >= from of token tok in s, 0 when there is none
IndexOf(s, tok, from) ==
  IF from > Len(s) THEN 0
  ELSE IF s[from] = tok THEN from
  ELSE IndexOf(s, tok, from + 1)

\* the separator of the compound values; as a token it stands for two colons
Sep == "::"

RECURSIVE Colons(_)
\* the string with every token "::" written as its two characters
Colons(s) ==
  IF s = <<>> THEN <<>>
  ELSE (IF s[1] = Sep THEN <<":", ":">> ELSE <<s[1]>>) \o Colons(Tail(s))

RECURSIVE IndexOfSep(_, _)
\* first position >= from where two colons follow each other, 0 when none
IndexOfSep(s, from) ==
  IF from >= Len(s) THEN 0
  ELSE IF s[from] = ":" /\ s[from + 1] = ":" THEN from
  ELSE IndexOfSep(s, from + 1)

RECURSIVE SplitSep(_)
\* s.split('::') on a string written with single colons: the leftmost pair
\* of colons is cut out, then the rest is split
SplitSep(s) ==
  LET i == IndexOfSep(s, 1) IN
  IF i = 0 THEN <<s>>
  ELSE <<SubSeq(s, 1, i - 1)>> \o SplitSep(SubSeq(s, i + 2, Len(s)))

RECURSIVE SplitToken(_, _)
\* s.split(sep), sep a token
SplitToken(s, sep) ==
  LET i == IndexOf(s, sep, 1) IN
  IF i = 0 THEN <<s>>
  ELSE <<SubSeq(s, 1, i - 1)>> \o SplitToken(SubSeq(s, i + 1, Len(s)), sep)

\* s.split(sep)
Split(s, sep) == IF sep = Sep THEN SplitSep(Colons(s)) ELSE SplitToken(s, sep)

\* array destructuring and indexing: undefined beyond the end
Part(parts, k) == IF k <= Len(parts) THEN parts[k] ELSE Undefined

\* s.startsWith('http')
HttpTokens == {"http://", "https://"}
StartsWithHttp(s) == s # Undefined /\ Len(s) > 0 /\ s[1] \in HttpTokens

\* url.replace(/\/$/, '')
StripTrailingSlash(s) == IF Len(s) > 0 /\ s[Len(s)] = "/" THEN SubSeq(s, 1, Len(s) - 1) ELSE s

\* path.match(/\/models\/([^/]+)\/runs/)?.[1] : the leftmost place where
\* "/models/" is followed by a run of non-slash tokens and then "/runs"
MatchesAt(p, i) ==
  /\ i + 5 <= Len(p)
  /\ p[i] = "/" /\ p[i + 1] = "models" /\ p[i + 2] = "/"
  /\ p[i + 3] # "/"
  /\ LET j == IndexOf(p, "/", i + 3) IN
       j # 0 /\ j + 1 <= Len(p) /\ p[j + 1] = "runs"

ModelIdAt(p, i) == SubSeq(p, i + 3, IndexOf(p, "/", i + 3) - 1)

ModelIdOf(p) ==
  LET hits == {i \in 1..Len(p) : MatchesAt(p, i)} IN
  IF hits = {} THEN Undefined
  ELSE ModelIdAt(p, CHOOSE i \in hits : \A k \in hits : i <= k)

\* ------------------------------------------------------------------ JSON
\* the texts JSON.parse accepts; every other text makes it throw
JsonObjectTexts == {<<"{", "}">>, <<"{", "q:v", "}">>}
JsonArrayTexts == {<<"[", "1", "]">>}
ValidJsonTexts == JsonObjectTexts \cup JsonArrayTexts

JsonParses(text) == text \in ValidJsonTexts

\* JSON.parse(text) for a text holding an object
JsonObject(text) ==
  IF text = <<"{", "q:v", "}">> THEN [k \in {<<"q">>} |-> JStr(<<"v">>)] ELSE EmptyObj

SyntaxErrorMessage == <<"Unexpected token">>

RECURSIVE TrimLeft(_)
TrimLeft(s) == IF Len(s) > 0 /\ s[1] = " " THEN TrimLeft(Tail(s)) ELSE s

RECURSIVE TrimRight(_)
TrimRight(s) == IF Len(s) > 0 /\ s[Len(s)] = " " THEN TrimRight(SubSeq(s, 1, Len(s) - 1)) ELSE s

\* value.trim()
Trim(s) == TrimRight(TrimLeft(s))

LooksLikeJson(t) ==
  /\ Len(t) > 0
  /\ \/ t[1] = "[" /\ t[Len(t)] = "]"
     \/ t[1] = "{" /\ t[Len(t)] = "}"

\* a tryParseJson that gives the trimmed text when parsing fails
tryParseJsonKeepTrimmed(value) ==
  IF value.t # "string" THEN value
  ELSE LET trimmed == Trim(value.s) IN
       IF LooksLikeJson(trimmed) /\ JsonParses(trimmed) THEN JParsed(trimmed)
       ELSE JStr(trimmed)

\* tryParseJson(value)
tryParseJson(value) ==
  IF value.t # "string" THEN value
  ELSE LET trimmed == Trim(value.s) IN
       IF LooksLikeJson(trimmed) /\ JsonParses(trimmed) THEN JParsed(trimmed) ELSE value

\* the visual-mode loop: one body key per mapped key that starts with body.
GatherVisual(paramValues) ==
  LET keys == {k \in DOMAIN paramValues : Len(k) > 0 /\ k[1] = "body."} IN
  [n \in {Tail(k) : k \in keys} |->
     tryParseJson(paramValues[CHOOSE k \in keys : Tail(k) = n])]

\* ------------------------------------------------------------ tool names
UpperLetters == <<"A", "B", "C", "D", "E", "F", "G", "H", "I", "J", "K", "L", "M",
                  "N", "O", "P", "Q", "R", "S", "T", "U", "V", "W", "X", "Y", "Z">>
LowerLetters == <<"a", "b", "c", "d", "e", "f", "g", "h", "i", "j", "k", "l", "m",
                  "n", "o", "p", "q", "r", "s", "t", "u", "v", "w", "x", "y", "z">>
Digits == {"0", "1", "2", "3", "4", "5", "6", "7", "8", "9"}
Whitespace == {" ", "\t", "\n"}

AllowedChars == {LowerLetters[i] : i \in 1..26} \cup Digits \cup {"_", "-"}

\* one character of name.toLowerCase()
LowerChar(c) ==
  IF \E i \in 1..26 : UpperLetters[i] = c
  THEN LowerLetters[CHOOSE i \in 1..26 : UpperLetters[i] = c]
  ELSE c

ToLowerCase(s) == [i \in 1..Len(s) |-> LowerChar(s[i])]

RECURSIVE ReplaceWhitespaceRuns(_)
\* .replace(/\s+/g, '_')
ReplaceWhitespaceRuns(s) ==
  IF s = <<>> THEN <<>>
  ELSE IF s[1] \in Whitespace
  THEN IF Len(s) > 1 /\ s[2] \in Whitespace
       THEN ReplaceWhitespaceRuns(Tail(s))
       ELSE <<"_">> \o ReplaceWhitespaceRuns(Tail(s))
  ELSE <<s[1]>> \o ReplaceWhitespaceRuns(Tail(s))

\* .replace(/[^a-z0-9_-]/g, '')
StripDisallowed(s) == SelectSeq(s, LAMBDA c : c \in AllowedChars)

MaxToolNameLen == 64

\* a slice that keeps every character
SliceAll(s) == s

\* .slice(0, 64)
Slice64(s) == SubSeq(s, 1, IF Len(s) < MaxToolNameLen THEN Len(s) ELSE MaxToolNameLen)

DefaultToolName == <<"l", "e", "a", "p", "t", "e", "r", "_", "t", "o", "o", "l">>

\* sanitizeToolName(name), name a sequence of characters
sanitizeToolName(name) ==
  LET r == Slice64(StripDisallowed(ReplaceWhitespaceRuns(ToLowerCase(name)))) IN
  IF r = <<>> THEN DefaultToolName ELSE r

\* the characters of a token of a path
CharsOf(tok) ==
  CASE tok = "models" -> <<"m", "o", "d", "e", "l", "s">>
    [] tok = "runs" -> <<"r", "u", "n", "s">>
    [] tok = "other" -> <<"o", "t", "h", "e", "r">>
    [] tok = "v1" -> <<"v", "1">>
    [] OTHER -> <<tok>>

RECURSIVE Explode(_)
Explode(s) == IF s = <<>> THEN <<>> ELSE CharsOf(s[1]) \o Explode(Tail(s))

\* path.replace(/\//g, '_'), as characters
PathAsName(path) == [i \in 1..Len(Explode(path)) |->
                       IF Explode(path)[i] = "/" THEN "_" ELSE Explode(path)[i]]

RECURSIVE DigitsOf(_)
\* the decimal digits of a count, as in `${count}`
DigitsOf(n) ==
  IF n < 10 THEN <<ToString(n)>> ELSE DigitsOf(n \div 10) \o <<ToString(n % 10)>>

\* a suffixed name that is not cut
SuffixedUncut(name, count) == name \o <<"_">> \o DigitsOf(count)

\* `${name}_${count}`.slice(0, 64)
Suffixed(name, count) == Slice64(name \o <<"_">> \o DigitsOf(count))

RECURSIVE DedupFrom(_, _, _, _)
\* the loop of deduplicateToolNames from the i-th name on; counts is the Map
DedupFrom(names, i, counts, res) ==
  IF i > Len(names) THEN res
  ELSE LET name == names[i]
           count == IF name \in DOMAIN counts THEN counts[name] ELSE 0
           pushed == IF count = 0 THEN name ELSE Suffixed(name, count)
           set == [n \in (DOMAIN counts) \cup {name} |->
                     IF n = name THEN count + 1 ELSE counts[n]]
       IN DedupFrom(names, i + 1, set, Append(res, pushed))

\* deduplicateToolNames(names)
deduplicateToolNames(names) == DedupFrom(names, 1, [n \in {} |-> 0], <<>>)

\* ------------------------------------------------------- OpenAPI documents
\* schema.type when the schema has none
NoType == "#undefined"

\* A schema without any keyword. properties holds the property names in
\* document order and fields their schemas; enum and items hold zero or one
\* value; required is empty when the schema has no required list.
Leaf ==
  [ref |-> Undefined, hasProperties |-> FALSE, properties |-> <<>>, present |-> TRUE,
   type |-> NoType, enum |-> <<>>, items |-> <<>>, required |-> <<>>,
   description |-> Undefined, fields |-> <<>>]

\* A schema node: its $ref (Undefined when it has none) and its properties.
Node(ref, hasProperties, properties) ==
  [Leaf EXCEPT !.ref = ref, !.hasProperties = hasProperties, !.properties = properties,
               !.fields = [n \in {properties[i] : i \in 1..Len(properties)} |-> Leaf]]

NoNode == [Leaf EXCEPT !.present = FALSE]

Typed(t) == [Leaf EXCEPT !.type = t]
EnumSchema(values) == [Leaf EXCEPT !.type = "string", !.enum = <<values>>]
ArraySchema(items) == [Leaf EXCEPT !.type = "array", !.items = <<items>>]
ObjectSchema(names, fields, required) ==
  [Leaf EXCEPT !.type = "object", !.hasProperties = TRUE, !.properties = names,
               !.fields = fields, !.required = required]
Described(schema, text) == [schema EXCEPT !.description = text]

Inline(properties) == Node(Undefined, TRUE, properties)
Ref(ref) == Node(ref, FALSE, <<>>)

\* the document as the code walks it: a map from key paths to nodes
UndefAt == <<<<"#undefined">>>>
ThrowAt == <<<<"#TypeError">>>>

\* a parse of $ref that keeps the leading #/
RefPathKeepHash(ref) == Split(ref, "/")

\* schema.$ref.replace('#/', '').split('/')
RefPath(ref) ==
  LET i == IndexOf(ref, "#/", 1)
      stripped == IF i = 0 THEN ref ELSE SubSeq(ref, 1, i - 1) \o SubSeq(ref, i + 1, Len(ref))
  IN Split(stripped, "/")

RECURSIVE WalkFrom(_, _, _, _)
\* for (const part of refPath) resolved = resolved[part]
WalkFrom(tree, parts, k, at) ==
  IF k > Len(parts) \/ at = ThrowAt THEN at
  ELSE IF at = UndefAt THEN ThrowAt
  ELSE LET nxt == Append(at, parts[k]) IN
       WalkFrom(tree, parts, k + 1, IF nxt \in DOMAIN tree THEN nxt ELSE UndefAt)

\* resolveSchema(schema, spec): st is "ok", "undefined" (the value returned is
\* undefined) or "throw" (a TypeError while walking)
resolveSchema(schema, tree) ==
  IF Truthy(schema.ref)
  THEN LET at == WalkFrom(tree, RefPath(schema.ref), 1, <<>>) IN
       IF at = ThrowAt THEN [st |-> "throw", node |-> NoNode]
       ELSE IF at = UndefAt THEN [st |-> "undefined", node |-> NoNode]
       ELSE [st |-> "ok", node |-> tree[at]]
  ELSE [st |-> "ok", node |-> schema]

\* ------------------------------------------------------------- the state
VARIABLES
  node,            \* which node's execute runs: "Leapter" or "LeapterTool"
  profile,         \* which input domain the run draws from
  continueOnFail,  \* this.continueOnFail()
  executionId,     \* this.getExecutionId()
  nItems,          \* items.length
  projectValue,    \* the node parameter project
  itemIndex,       \* the loop variable
  pc,              \* the position of execute
  cur,             \* the locals of the current loop iteration
  returnData,      \* the records pushed so far
  raised,          \* the error execute threw, NoError while it has not
  inflight,        \* the HTTP requests issued and not yet answered
  sent,            \* every HTTP request issued, in order
  phases,          \* per item, the phases it has gone through
  failed,          \* per item, the kind of failure that hit it
  seen,            \* per item, the path, editor base and response it used
  call,            \* the exported function under call and its arguments
  result           \* what the call returned or threw

vars == <<call, result, node, profile, continueOnFail, executionId, nItems, projectValue,
          itemIndex, pc, cur, returnData, raised, inflight, sent, phases,
          failed, seen>>

Nodes == {"Leapter", "LeapterTool"}

\* no function is under call
NoCall == [fn |-> "none"]

\* the call has not returned
NoResult == [st |-> "pending"]

\* a returned value
Returned(v) == [st |-> "returned", value |-> v]

NoError == [message |-> EmptyStr, noe |-> FALSE, itemIndex |-> -1, set |-> FALSE]
Err(msg, noe, i) == [message |-> msg, noe |-> noe, itemIndex |-> i, set |-> TRUE]

\* ------------------------------------------------------------ the inputs
ServerUrl == <<"https://", "api">>
EditorUrl == <<"https://", "ed">>
SpecUrl == <<"https://", "spec">>

PathRuns == <<"/", "models", "/", "s", "/", "runs">>
PathDeep == <<"/", "v1", "/", "models", "/", "m", "/", "runs", "/", "x">>
PathPlain == <<"/", "other">>
PathNoId == <<"/", "models", "/", "/", "runs">>

\* a project value with the spec URL and the editor base URL exchanged
ProjectValueSwapped(id, specUrl, editorBaseUrl, name) ==
  Tpl(id) \o <<Sep>> \o Tpl(editorBaseUrl) \o <<Sep>> \o Tpl(specUrl) \o <<Sep>> \o Tpl(name)

\* fetchProjects: `${projectId}::${specUrl}::${editorBaseUrl}::${projectName}`
ProjectValue(id, specUrl, editorBaseUrl, name) ==
  Tpl(id) \o <<Sep>> \o Tpl(specUrl) \o <<Sep>> \o Tpl(editorBaseUrl) \o <<Sep>> \o Tpl(name)

\* fetchOperations: `post::${path}::${operationUrl}::${editorBaseUrl}::${blueprintName}`
OperationValue(path, operationUrl, editorBaseUrl, name) ==
  <<"post", Sep>> \o path \o <<Sep>> \o operationUrl \o <<Sep>> \o Tpl(editorBaseUrl)
    \o <<Sep>> \o name

EditorBases(pr) ==
  IF pr = "response" THEN {EditorUrl, EmptyStr, Undefined} ELSE {EditorUrl}

Paths(pr) ==
  IF pr = "response" THEN {PathRuns, PathDeep, PathPlain, PathNoId} ELSE {PathRuns}

\* the values of the node parameter operation
LeapterOperations(pr) ==
  {OperationValue(p, ServerUrl \o p, e, <<"Sum">>) : p \in Paths(pr), e \in EditorBases(pr)}
    \cup (IF pr = "request"
          THEN {<<"post">>,
                <<"get", Sep>> \o PathRuns \o <<Sep>> \o ServerUrl \o PathRuns
                  \o <<Sep>> \o EditorUrl \o <<Sep, "Sum">>}
          ELSE {})

\* the values of the node parameter project: the editor base matters to the
\* tool node only, which reads it from the project
ProjectValues(pr, nd) ==
  {ProjectValue(<<"p1">>, SpecUrl, e, <<"Proj">>) :
     e \in IF nd = "LeapterTool" THEN EditorBases(pr) ELSE {EditorUrl}}
    \cup (IF pr = "batch" THEN {EmptyStr, <<"p1">>} ELSE {})

ExecutionIds(pr) == IF pr = "request" THEN {<<"exec1">>, Undefined} ELSE {<<"exec1">>}

ItemCounts(pr) == IF pr = "batch" THEN 0..MaxItems ELSE {1}

\* the node parameters of one item of the Leapter node
NoParams == [k \in {} |-> JNull]

\* the most mapped keys of the parameters of one item
MaxKeys == 2

\* mapped keys: with the prefix, with body. after the start, with it twice
ParamKeys == {<<"body.", "q">>, <<"x", "body.", "q">>, <<"body.", "body.", "r">>}

\* mapped values: a plain string, texts of an array and of an object, a text
\* that looks like an array and does not parse, a text that lacks the closing
\* bracket, a number and an array
ParamValues ==
  {JStr(<<"v">>), JStr(<<" ", "[", "1", "]", " ">>), JStr(<<"{", "q:v", "}">>),
   JStr(<<" ", "[", "oops", "]">>), JStr(<<"[", "1">>), JNum(1), JArr(<<"[", "1", "]">>)}

VisualParams(pr) ==
  IF pr # "request" THEN {NoParams}
  ELSE UNION {[K -> ParamValues] : K \in {S \in SUBSET ParamKeys : Cardinality(S) <= MaxKeys}}

JsonParams(pr) ==
  IF pr = "batch" THEN {<<"{", "oops">>}
  ELSE IF pr = "request" THEN {<<"{", "}">>, <<"{", "q:v", "}">>, <<"{", "oops">>}
  ELSE {<<"{", "}">>}

Referers(pr) == IF pr = "request" THEN {Undefined, <<"ref">>} ELSE {Undefined}

Timeouts(pr) == IF pr = "request" THEN {0, 30} ELSE {0}

LeapterInputs(pr) ==
  [operation : LeapterOperations(pr), inputMode : {"visual"}, parameters : VisualParams(pr),
     parametersJson : {<<"{", "}">>}, referer : Referers(pr), timeout : Timeouts(pr)]
  \cup
  (IF pr = "response" THEN {}
   ELSE [operation : LeapterOperations(pr), inputMode : {"json"}, parameters : {NoParams},
         parametersJson : JsonParams(pr), referer : Referers(pr), timeout : Timeouts(pr)])

\* an operation under a path; exists is FALSE when the path item has no post
Op(summary, operationId, deprecated, schema) ==
  [exists |-> TRUE, summary |-> summary, operationId |-> operationId,
   deprecated |-> deprecated, schema |-> schema]

NoOp == [exists |-> FALSE, summary |-> Undefined, operationId |-> Undefined,
         deprecated |-> FALSE, schema |-> NoNode]

Entry(path, post) == [path |-> path, post |-> post]

RootTree == [p \in {<<>>} |-> NoNode]

Doc(servers, entries, tree) == [servers |-> servers, paths |-> entries, tree |-> tree]

NameSum == <<"S", "u", "m">>

DocOne(path) == Doc(<<ServerUrl \o <<"/">>>>,
                    <<Entry(path, Op(NameSum, Undefined, FALSE, Inline(<<"city">>)))>>,
                    RootTree)

DocEmpty == Doc(<<ServerUrl>>, <<Entry(PathRuns, NoOp)>>, RootTree)

DocNoServer == Doc(<<>>, <<Entry(PathRuns, Op(NameSum, Undefined, FALSE, NoNode))>>, RootTree)

\* the most path entries of a document of the routing profile
MaxCandidates == 3

PathOf(id) == <<"/", "models", "/", id, "/", "runs">>

NameRun == <<"R", "u", "n">>
NameRunLower == <<"r", "u", "n">>
NameBang == <<"!", "!">>

\* the path entries the documents of the routing profile are made of: two
\* operations whose names sanitize to run, one whose name sanitizes to the
\* default name, one without a request schema, one whose schema has no
\* property and one deprecated
RoutingEntries ==
  {Entry(PathOf("a"), Op(NameRun, Undefined, FALSE, Inline(<<"city">>))),
   Entry(PathOf("b"), Op(Undefined, NameRunLower, FALSE, Inline(<<"city", "day">>))),
   Entry(PathOf("c"), Op(NameBang, Undefined, FALSE, Inline(<<"zip">>))),
   Entry(PathOf("d"), Op(NameSum, Undefined, FALSE, NoNode)),
   Entry(PathOf("f"), Op(Undefined, Undefined, FALSE, Inline(<<>>))),
   Entry(PathOf("e"), Op(NameSum, Undefined, TRUE, Inline(<<"city">>)))}

\* Object.entries(spec.paths): up to n entries in document order, each path once
EntryLists(entries, n) ==
  {q \in UNION {[1..k -> entries] : k \in 0..n} :
     \A i, j \in 1..Len(q) : i # j => q[i].path # q[j].path}

RoutingDocs ==
  {Doc(<<ServerUrl>>, q, RootTree) : q \in EntryLists(RoutingEntries, MaxCandidates)}

\* a document of two candidates
DocTwo ==
  Doc(<<ServerUrl>>,
      <<Entry(PathOf("a"), Op(NameSum, Undefined, FALSE, Inline(<<"city">>))),
        Entry(PathOf("c"), Op(NameBang, Undefined, FALSE, Inline(<<"zip">>)))>>,
      RootTree)

\* what the GET of the spec URL answers; Undefined stands for a thrown error
SpecAnswers(pr) ==
  IF pr = "batch" THEN {DocOne(PathRuns), DocEmpty}
  ELSE IF pr = "response" THEN {DocOne(p) : p \in Paths(pr)} \cup {DocNoServer}
  ELSE IF pr = "routing" THEN RoutingDocs
  ELSE IF pr = "discovery" THEN {call.answer.doc}
  ELSE IF pr = "request" THEN {DocOne(PathRuns), DocTwo}
  ELSE {DocOne(PathRuns)}

SpecFetchErrorMessage == <<"ETIMEDOUT">>

\* the json of one input item of the tool node
ToolInput(action, keys) ==
  [k \in keys \cup (IF action = Undefined THEN {} ELSE {"action"}) |->
     IF k = "action" THEN JStr(action) ELSE JStr(<<"v">>)]

\* the values of the action field; Undefined stands for an input without it
RoutingActions == {Undefined, EmptyStr, NameRun, NameBang, <<"z">>}

\* the keys of the inputs of the request profile: the system fields, a key
\* that differs from one by case and two parameters
RequestKeys == {"sessionId", "action", "chatInput", "toolCallId", "SessionId", "city", "zip"}

ToolInputs(pr) ==
  IF pr = "routing"
  THEN {ToolInput(a, K) : a \in RoutingActions, K \in SUBSET {"city", "day", "zip"}}
  ELSE IF pr = "discovery"
  THEN {ToolInput(result.value[i].name, K) :
          i \in 1..Len(result.value), K \in SUBSET {"city"}}
  ELSE IF pr = "request"
  THEN {[k \in K |-> IF k = "action" THEN a ELSE JStr(<<"v">>)] :
          K \in SUBSET RequestKeys, a \in {JStr(NameSum), JStr(NameBang), JNum(1)}}
  ELSE {ToolInput(NameSum, {"city", "sessionId"})}

\* ------------------------------------------------- what the upstream answers
ObjBody(o) == [t |-> "object", o |-> o, s |-> EmptyStr]
StrBody(s) == [t |-> "string", o |-> EmptyObj, s |-> s]
NullBody == [t |-> "null", o |-> EmptyObj, s |-> EmptyStr]

BodyKeys == {"detail", "error", "message", "_metadata", "data"}

BodyValues(k) ==
  CASE k = "detail" -> {EmptyStr, <<"d">>}
    [] k = "error" -> {<<"e">>}
    [] k = "message" -> {<<"m">>}
    [] k = "_metadata" -> {<<"up">>}
    [] OTHER -> {<<"r">>}

ObjectBodies ==
  UNION {{[k \in K |-> JStr(f[k])] : f \in {g \in [K -> UNION {BodyValues(k) : k \in K}] :
                                              \A k \in K : g[k] \in BodyValues(k)}} :
         K \in SUBSET BodyKeys}

Bodies(pr) ==
  IF pr = "response"
  THEN {ObjBody(o) : o \in ObjectBodies}
         \cup {StrBody(<<"{", "}">>), StrBody(<<"<html>">>), NullBody}
  ELSE IF pr = "routing" THEN {ObjBody(EmptyObj)}
  ELSE {ObjBody(EmptyObj), ObjBody([k \in {"detail"} |-> JStr(<<"nf">>)])}

HeaderNames == {"x-run-id", "X-Run-Id", "X-RUN-ID"}

HeaderValues(h) ==
  CASE h = "x-run-id" -> {EmptyStr, <<"r1">>}
    [] h = "X-Run-Id" -> {<<"r2">>}
    [] OTHER -> {<<"r3">>}

HeaderSets(pr) ==
  IF pr = "response"
  THEN UNION {{f \in [H -> UNION {HeaderValues(h) : h \in H}] :
                 \A h \in H : f[h] \in HeaderValues(h)} : H \in SUBSET HeaderNames}
  ELSE {[h \in {"x-run-id"} |-> <<"r1">>]}

\* statusCode 0 stands for a response without statusCode
Statuses(pr) == IF pr = "response" THEN {0, 200, 400, 404} ELSE {200, 404}

RequestErrorMessage == <<"ECONNRESET">>

Responses(pr) ==
  [kind : {"full"}, statusCode : Statuses(pr), body : Bodies(pr), headers : HeaderSets(pr)]
  \cup {[kind |-> "throw", statusCode |-> 0, body |-> NullBody,
         headers |-> [h \in {} |-> EmptyStr]]}

\* ------------------------------------------------------ pieces of execute
Header(hs, name) == IF name \in DOMAIN hs THEN hs[name] ELSE Undefined

\* method.toUpperCase()
ToUpperCase(s) ==
  [i \in 1..Len(s) |-> IF s[i] = "post" THEN "POST" ELSE IF s[i] = "get" THEN "GET" ELSE s[i]]

GenericMessage(statusCode) == <<"Request failed with status ", ToString(statusCode)>>

\* body.detail || body.error || body.message || `Request failed with status N`
ErrorMessageOf(body, statusCode) ==
  JsOr(Field(body, "detail"),
       JsOr(Field(body, "error"),
            JsOr(Field(body, "message"), GenericMessage(statusCode))))

\* headers['x-run-id'] || headers['X-Run-Id']
RunIdOf(headers) ==
  IF Truthy(Header(headers, "x-run-id")) THEN Header(headers, "x-run-id")
  ELSE Header(headers, "X-Run-Id")

\* Leapter: modelId ? `${editorBaseUrl}/${modelId}` : editorBaseUrl
LeapterEditorLink(modelId, editorBaseUrl) ==
  IF Truthy(modelId) THEN Tpl(editorBaseUrl) \o <<"/">> \o modelId ELSE editorBaseUrl

\* LeapterTool: modelId && editorBaseUrl && editorBaseUrl !== 'undefined' ? ... : ''
ToolEditorLink(modelId, editorBaseUrl) ==
  IF Truthy(modelId) /\ Truthy(editorBaseUrl) /\ editorBaseUrl # <<"undefined">>
  THEN editorBaseUrl \o <<"/">> \o modelId
  ELSE EmptyStr

\* response.statusCode || 200
StatusCodeOf(r) == IF r.statusCode = 0 THEN 200 ELSE r.statusCode

Record(json, i) == [json |-> json, pairedItem |-> i]

\* Leapter: { error: errorMessage, statusCode, ...responseBody }
LeapterErrorRecord(errorMessage, statusCode, responseBody, i) ==
  Record(Spread([k \in {"error", "statusCode"} |->
                   IF k = "error" THEN JStr(errorMessage) ELSE JNum(statusCode)],
                responseBody), i)

\* LeapterTool: { error: errorMessage, statusCode }
ToolErrorRecord(errorMessage, statusCode, i) ==
  Record([k \in {"error", "statusCode"} |->
            IF k = "error" THEN JStr(errorMessage) ELSE JNum(statusCode)], i)

\* the metadata written first and the body spread over it
SuccessRecordBodyLast(responseBody, runId, editorLink, i) ==
  Record(Spread([k \in {"_metadata"} |-> JMeta(runId, editorLink)], responseBody), i)

\* { ...responseBody, _metadata: { runId, editorLink } }
SuccessRecord(responseBody, runId, editorLink, i) ==
  Record(Spread(responseBody, [k \in {"_metadata"} |-> JMeta(runId, editorLink)]), i)

\* a catch block that pairs its record with the first item
CatchRecordUnpaired(err, i) == Record([k \in {"error"} |-> JStr(err.message)], 0)

\* Leapter, catch with continueOnFail: { error: err.message }
CatchRecord(err, i) == Record([k \in {"error"} |-> JStr(err.message)], i)

WrapPrefix == <<"Blueprint execution failed: ">>

\* a wrapped error built without { itemIndex }
WrappedErrorNoIndex(err, i) == Err(WrapPrefix \o err.message, TRUE, -1)

\* new NodeOperationError(node, `Blueprint execution failed: ${err.message}`, { itemIndex })
WrappedError(err, i) == Err(WrapPrefix \o err.message, TRUE, i)

\* a call that is not awaited: the loop goes on to the next item
PcAfterSendNoAwait == "next"

\* the position of execute once the POST is issued: it awaits the response
PcAfterSend == "await"

\* a request that is sent again when it throws
PcAfterRequestErrorRetry == "send"

\* the position of execute when the awaited request throws: the catch block
PcAfterRequestError == "catch"

\* --------------------------------------------------------------- locals
NoResponse == [kind |-> "none", statusCode |-> 0, body |-> NullBody,
               headers |-> [h \in {} |-> EmptyStr]]

NoRequest == [kind |-> "none", item |-> -1, method |-> EmptyStr, url |-> EmptyStr,
              headers |-> [h \in {} |-> EmptyStr], body |-> EmptyObj, timeout |-> 0]

NoSeen == [path |-> Undefined, editorBaseUrl |-> Undefined, response |-> NoResponse]

FreshCur == [in |-> <<>>, method |-> Undefined, path |-> Undefined,
             operationUrl |-> Undefined, editorBaseUrl |-> Undefined,
             modelId |-> Undefined, body |-> EmptyObj, request |-> NoRequest,
             response |-> NoResponse, err |-> NoError,
             action |-> EmptyStr, spec |-> <<>>, blueprints |-> <<>>]

Items == 0..(nItems - 1)

Phase(i, ph) == [phases EXCEPT ![i] = Append(@, ph)]

Fail(i, kind) == [failed EXCEPT ![i] = kind]

Throw(err, kind) ==
  /\ cur' = [cur EXCEPT !.err = err]
  /\ failed' = Fail(itemIndex, kind)
  /\ pc' = "catch"

\* ----------------------------------------------------------------- Init
InitFor(pr) ==
  /\ call = NoCall
  /\ result = NoResult
  /\ profile = pr
  /\ node \in Nodes
  /\ continueOnFail \in BOOLEAN
  /\ executionId \in ExecutionIds(pr)
  /\ nItems \in ItemCounts(pr)
  /\ projectValue \in ProjectValues(pr, node)
  /\ itemIndex = 0
  /\ pc = "start"
  /\ cur = FreshCur
  /\ returnData = <<>>
  /\ raised = NoError
  /\ inflight = {}
  /\ sent = <<>>
  /\ phases = [i \in Items |-> <<>>]
  /\ failed = [i \in Items |-> "none"]
  /\ seen = [i \in Items |-> NoSeen]

Init == InitFor("batch")

\* -------------------------------------------------------- shared actions
\* the statements of execute before the loop
Start ==
  /\ pc = "start"
  /\ IF node = "Leapter" /\ ~Truthy(projectValue)
     THEN /\ raised' = Err(<<"No project selected. Please select a project first.">>, TRUE, -1)
          /\ pc' = "raised"
     ELSE /\ pc' = "loop"
          /\ UNCHANGED raised
  /\ UNCHANGED <<call, result, node, profile, continueOnFail, executionId, nItems, projectValue,
                 itemIndex, cur, returnData, inflight, sent, phases, failed, seen>>

\* for (...; itemIndex < items.length; ...) and return [returnData]
LoopHead ==
  /\ pc = "loop"
  /\ pc' = IF itemIndex < nItems THEN "gather" ELSE "returned"
  /\ UNCHANGED <<call, result, node, profile, continueOnFail, executionId, nItems, projectValue,
                 itemIndex, cur, returnData, raised, inflight, sent, phases, failed, seen>>

\* itemIndex++ at the end of an iteration and after continue
NextItem ==
  /\ pc = "next"
  /\ itemIndex' = itemIndex + 1
  /\ cur' = FreshCur
  /\ pc' = "loop"
  /\ UNCHANGED <<call, result, node, profile, continueOnFail, executionId, nItems, projectValue,
                 returnData, raised, inflight, sent, phases, failed, seen>>

\* httpRequestWithAuthentication is called with the blueprint request
Send ==
  /\ pc = "send"
  /\ inflight' = inflight \cup {[item |-> itemIndex, kind |-> "POST"]}
  /\ sent' = Append(sent, cur.request)
  /\ phases' = Phase(itemIndex, "send")
  /\ pc' = PcAfterSend
  /\ UNCHANGED <<call, result, node, profile, continueOnFail, executionId, nItems, projectValue,
                 itemIndex, cur, returnData, raised, failed, seen>>

\* the awaited call returns a response or throws
Respond ==
  /\ pc = "await"
  /\ inflight' = inflight \ {[item |-> itemIndex, kind |-> "POST"]}
  /\ \E r \in Responses(profile) :
       IF r.kind = "throw"
       THEN /\ cur' = [cur EXCEPT !.err = Err(RequestErrorMessage, FALSE, -1)]
            /\ failed' = Fail(itemIndex, "request")
            /\ pc' = PcAfterRequestError
       ELSE /\ cur' = [cur EXCEPT !.response = r]
            /\ pc' = "classify"
            /\ UNCHANGED failed
  /\ UNCHANGED <<call, result, node, profile, continueOnFail, executionId, nItems, projectValue,
                 itemIndex, returnData, raised, sent, phases, seen>>

\* ------------------------------------------------------- Leapter.execute
\* reading the item's parameters, splitting the selector, gathering the body
LeapterGather ==
  /\ pc = "gather" /\ node = "Leapter"
  /\ \E in \in LeapterInputs(profile) :
       LET parts == Split(in.operation, Sep)
           path == Part(parts, 2)
           base == [cur EXCEPT !.in = in, !.method = Part(parts, 1), !.path = path,
                               !.operationUrl = Part(parts, 3),
                               !.editorBaseUrl = Part(parts, 4)]
       IN
       /\ phases' = Phase(itemIndex, "gather")
       /\ IF path = Undefined
          THEN /\ cur' = [base EXCEPT !.err =
                            Err(<<"Cannot read properties of undefined">>, FALSE, -1)]
               /\ failed' = Fail(itemIndex, "selector")
               /\ pc' = "catch"
          ELSE IF in.inputMode = "visual"
          THEN /\ cur' = [base EXCEPT !.modelId = ModelIdOf(path),
                                      !.body = GatherVisual(in.parameters)]
               /\ pc' = "build"
               /\ UNCHANGED failed
          ELSE IF JsonParses(in.parametersJson)
          THEN /\ cur' = [base EXCEPT !.modelId = ModelIdOf(path),
                                      !.body = JsonObject(in.parametersJson)]
               /\ pc' = "build"
               /\ UNCHANGED failed
          ELSE /\ cur' = [base EXCEPT !.modelId = ModelIdOf(path),
                                      !.err = Err(SyntaxErrorMessage, FALSE, -1)]
               /\ failed' = Fail(itemIndex, "json")
               /\ pc' = "catch"
  /\ UNCHANGED <<call, result, node, profile, continueOnFail, executionId, nItems, projectValue,
                 itemIndex, returnData, raised, inflight, sent, seen>>

\* the headers of the Leapter request
LeapterHeaders(referer) ==
  LET names == {"X-Correlation-Id", "Content-Type"}
                 \cup (IF Truthy(referer) THEN {"X-Referer"} ELSE {})
  IN [h \in names |->
        IF h = "X-Correlation-Id" THEN JsOr(executionId, EmptyStr)
        ELSE IF h = "Content-Type" THEN <<"application/json">>
        ELSE referer]

\* requestOptions
LeapterBuild ==
  /\ pc = "build" /\ node = "Leapter"
  /\ cur' = [cur EXCEPT !.request =
               [kind |-> "POST", item |-> itemIndex, method |-> ToUpperCase(cur.method),
                url |-> cur.operationUrl, headers |-> LeapterHeaders(cur.in.referer),
                body |-> cur.body, timeout |-> cur.in.timeout]]
  /\ phases' = Phase(itemIndex, "build")
  /\ pc' = "send"
  /\ UNCHANGED <<call, result, node, profile, continueOnFail, executionId, nItems, projectValue,
                 itemIndex, returnData, raised, inflight, sent, failed, seen>>

\* from the response to the pushed record or the thrown error
LeapterClassify ==
  /\ pc = "classify" /\ node = "Leapter"
  /\ phases' = Phase(itemIndex, "classify")
  /\ seen' = [seen EXCEPT ![itemIndex] =
                [path |-> cur.path, editorBaseUrl |-> cur.editorBaseUrl,
                 response |-> cur.response]]
  /\ LET r == cur.response
         statusCode == StatusCodeOf(r)
         responseBody == IF r.body.t = "string" THEN JsonObject(r.body.s) ELSE r.body.o
     IN
     IF r.body.t = "string" /\ ~JsonParses(r.body.s)
     THEN /\ Throw(Err(SyntaxErrorMessage, FALSE, -1), "parse")
          /\ UNCHANGED returnData
     ELSE IF statusCode >= 400
     THEN IF r.body.t = "null"
          THEN /\ Throw(Err(<<"Cannot read properties of null">>, FALSE, -1), "status")
               /\ UNCHANGED returnData
          ELSE LET errorMessage == ErrorMessageOf(responseBody, statusCode) IN
               IF continueOnFail
               THEN /\ returnData' = Append(returnData,
                         LeapterErrorRecord(errorMessage, statusCode, responseBody, itemIndex))
                    /\ failed' = Fail(itemIndex, "status")
                    /\ pc' = "next"
                    /\ UNCHANGED cur
               ELSE /\ Throw(Err(errorMessage, TRUE, itemIndex), "status")
                    /\ UNCHANGED returnData
     ELSE /\ returnData' = Append(returnData,
               SuccessRecord(responseBody, RunIdOf(r.headers),
                             LeapterEditorLink(cur.modelId, cur.editorBaseUrl), itemIndex))
          /\ pc' = "next"
          /\ UNCHANGED <<cur, failed>>
  /\ UNCHANGED <<call, result, node, profile, continueOnFail, executionId, nItems, projectValue,
                 itemIndex, raised, inflight, sent>>

\* the catch block of the Leapter loop
LeapterCatch ==
  /\ pc = "catch" /\ node = "Leapter"
  /\ IF continueOnFail
     THEN /\ returnData' = Append(returnData, CatchRecord(cur.err, itemIndex))
          /\ pc' = "next"
          /\ UNCHANGED raised
     ELSE /\ raised' = WrappedError(cur.err, itemIndex)
          /\ pc' = "raised"
          /\ UNCHANGED returnData
  /\ UNCHANGED <<call, result, node, profile, continueOnFail, executionId, nItems, projectValue,
                 itemIndex, cur, inflight, sent, phases, failed, seen>>

\* ---------------------------------------------------- LeapterTool.execute
\* the system fields without the action field
SYSTEM_FIELDS_NoAction == {"sessionId", "chatInput", "toolCallId"}

SYSTEM_FIELDS == {"sessionId", "action", "chatInput", "toolCallId"}

\* typeof input.action === 'string' ? input.action : ''
ActionOf(input) ==
  IF "action" \in DOMAIN input /\ input["action"].t = "string" THEN input["action"].s
  ELSE EmptyStr

\* the input without the system fields
ToolArgsOf(input) == [k \in (DOMAIN input) \ SYSTEM_FIELDS |-> input[k]]

SeqToSet(q) == {q[i] : i \in 1..Len(q)}

\* operation.summary || operation.operationId || path.replace(/\//g, '_')
BlueprintNameOf(entry) ==
  JsOr(entry.post.summary, JsOr(entry.post.operationId, PathAsName(entry.path)))

NoBlueprint == [name |-> EmptyStr, path |-> Undefined, operationUrl |-> Undefined,
                schemaKeys |-> {}, found |-> FALSE]

RECURSIVE CollectBlueprints(_, _, _)
\* the loop over Object.entries(spec.paths); st is "throw" when resolveSchema throws
CollectBlueprints(doc, serverUrl, k) ==
  IF k > Len(doc.paths) THEN [st |-> "ok", list |-> <<>>]
  ELSE LET entry == doc.paths[k]
           op == entry.post
           rest == CollectBlueprints(doc, serverUrl, k + 1)
       IN
       IF ~op.exists \/ op.deprecated THEN rest
       ELSE LET res == IF op.schema.present THEN resolveSchema(op.schema, doc.tree)
                       ELSE [st |-> "undefined", node |-> NoNode]
                keys == IF res.st = "ok" /\ res.node.hasProperties
                        THEN SeqToSet(res.node.properties) ELSE {}
                bp == [name |-> sanitizeToolName(BlueprintNameOf(entry)),
                       path |-> entry.path,
                       operationUrl |-> serverUrl \o entry.path,
                       schemaKeys |-> keys, found |-> TRUE]
            IN IF res.st = "throw" \/ rest.st = "throw"
               THEN [st |-> "throw", list |-> <<>>]
               ELSE [st |-> "ok", list |-> <<bp>> \o rest.list]

\* a find that keeps the last blueprint of that name
FindByNameLast(blueprints, name) ==
  LET hits == {i \in 1..Len(blueprints) : blueprints[i].name = name} IN
  IF hits = {} THEN 0 ELSE CHOOSE i \in hits : \A j \in hits : i >= j

\* blueprints.find((bp) => bp.name === actionSanitized): the index, 0 when none
FindByName(blueprints, name) ==
  LET hits == {i \in 1..Len(blueprints) : blueprints[i].name = name} IN
  IF hits = {} THEN 0 ELSE CHOOSE i \in hits : \A j \in hits : i <= j

\* the number of input keys that are schema keys of the blueprint
Overlap(bp, inputKeys) == Cardinality(inputKeys \cap bp.schemaKeys)

RECURSIVE BestByScoreLastWins(_, _, _, _, _, _)
\* a scoring loop that replaces the kept blueprint on an equal score
BestByScoreLastWins(blueprints, inputKeys, k, bestNum, bestDen, matched) ==
  IF k > Len(blueprints) THEN matched
  ELSE LET bp == blueprints[k]
           size == Cardinality(bp.schemaKeys)
           score == Cardinality(inputKeys \cap bp.schemaKeys)
           num == score * size + score
       IN
       IF size = 0
       THEN BestByScoreLastWins(blueprints, inputKeys, k + 1, bestNum, bestDen, matched)
       ELSE IF num * bestDen >= bestNum * size
       THEN BestByScoreLastWins(blueprints, inputKeys, k + 1, num, size, k)
       ELSE BestByScoreLastWins(blueprints, inputKeys, k + 1, bestNum, bestDen, matched)

RECURSIVE BestByScore(_, _, _, _, _, _)
\* the scoring loop; bestNum / bestDen is bestScore, matched the index kept so far.
\* score + score / size is compared as the fraction (score * size + score) / size
BestByScore(blueprints, inputKeys, k, bestNum, bestDen, matched) ==
  IF k > Len(blueprints) THEN matched
  ELSE LET bp == blueprints[k]
           size == Cardinality(bp.schemaKeys)
           score == Overlap(bp, inputKeys)
           num == score * size + score
       IN
       IF size = 0 THEN BestByScore(blueprints, inputKeys, k + 1, bestNum, bestDen, matched)
       ELSE IF num * bestDen > bestNum * size
       THEN BestByScore(blueprints, inputKeys, k + 1, num, size, k)
       ELSE BestByScore(blueprints, inputKeys, k + 1, bestNum, bestDen, matched)

\* strategy 1: the action field, when it is not empty
MatchByAction(blueprints, action) ==
  IF Truthy(action) THEN FindByName(blueprints, sanitizeToolName(action)) ELSE 0

\* a fallback that scores a single blueprint like any other
MatchBySchemaScoredOnly(blueprints, inputKeys) ==
  IF Len(blueprints) >= 1 THEN BestByScore(blueprints, inputKeys, 1, -1, 1, 0) ELSE 0

\* strategy 2: a single blueprint, or the best key overlap
MatchBySchema(blueprints, inputKeys) ==
  IF Len(blueprints) = 1 THEN 1
  ELSE IF Len(blueprints) > 1 THEN BestByScore(blueprints, inputKeys, 1, -1, 1, 0)
  ELSE 0

\* the key names of the model's objects, in the order the objects hold them
KeyNames ==
  <<"action", "chatInput", "city", "day", "sessionId", "SessionId", "toolCallId", "zip">>

\* Object.keys(o)
ObjectKeys(o) == SelectSeq(KeyNames, LAMBDA k : k \in DOMAIN o)

RECURSIVE Join(_, _)
\* list.join(sep), list a sequence of strings
Join(list, sep) ==
  IF list = <<>> THEN <<>>
  ELSE IF Len(list) = 1 THEN list[1]
  ELSE list[1] \o <<sep>> \o Join(Tail(list), sep)

\* JSON.stringify of an array of strings
JsonStringify(names) ==
  <<"[">> \o Join([i \in 1..Len(names) |-> <<"\"", names[i], "\"">>], ",") \o <<"]">>

\* a message that does not list the blueprints
NoMatchMessageWithoutNames(toolArgs, blueprints) ==
  <<"No blueprint matched the input arguments: ">> \o JsonStringify(ObjectKeys(toolArgs))

\* `No blueprint matched the input arguments: ${JSON.stringify(Object.keys(toolArgs))}. ` +
\* `Available blueprints: ${blueprints.map((b) => b.name).join(', ')}`
NoMatchMessage(toolArgs, blueprints) ==
  <<"No blueprint matched the input arguments: ">> \o JsonStringify(ObjectKeys(toolArgs))
    \o <<". ", "Available blueprints: ">>
    \o Join([i \in 1..Len(blueprints) |-> blueprints[i].name], ", ")

\* the index of the matched blueprint, 0 when none matched
Route(blueprints, action, inputKeys) ==
  LET byAction == MatchByAction(blueprints, action) IN
  IF byAction # 0 THEN byAction ELSE MatchBySchema(blueprints, inputKeys)

\* reading the item, the project value and its spec URL
ToolGather ==
  /\ pc = "gather" /\ node = "LeapterTool"
  /\ \E input \in ToolInputs(profile) :
       LET projectParts == Split(projectValue, Sep)
           specUrl == Part(projectParts, 2)
           base == [cur EXCEPT !.in = input, !.action = ActionOf(input),
                               !.body = ToolArgsOf(input),
                               !.editorBaseUrl = Part(projectParts, 3)]
       IN
       /\ phases' = Phase(itemIndex, "gather")
       /\ IF ~Truthy(specUrl) \/ ~StartsWithHttp(specUrl)
          THEN /\ cur' = [base EXCEPT !.err =
                            Err(<<"Invalid project configuration. Cannot parse spec URL from: ">>
                                  \o projectValue, TRUE, itemIndex)]
               /\ failed' = Fail(itemIndex, "config")
               /\ pc' = "catch"
          ELSE /\ cur' = [base EXCEPT !.request =
                            [kind |-> "GET", item |-> itemIndex, method |-> <<"GET">>,
                             url |-> specUrl, headers |-> [h \in {} |-> EmptyStr],
                             body |-> EmptyObj, timeout |-> 0]]
               /\ pc' = "fetch"
               /\ UNCHANGED failed
  /\ UNCHANGED <<call, result, node, profile, continueOnFail, executionId, nItems, projectValue,
                 itemIndex, returnData, raised, inflight, sent, seen>>

\* httpRequestWithAuthentication is called with the GET of the spec URL
ToolFetchSpec ==
  /\ pc = "fetch" /\ node = "LeapterTool"
  /\ inflight' = inflight \cup {[item |-> itemIndex, kind |-> "GET"]}
  /\ sent' = Append(sent, cur.request)
  /\ pc' = "awaitSpec"
  /\ UNCHANGED <<call, result, node, profile, continueOnFail, executionId, nItems, projectValue,
                 itemIndex, cur, returnData, raised, phases, failed, seen>>

\* the awaited GET returns the document or throws
ToolSpecArrives ==
  /\ pc = "awaitSpec" /\ node = "LeapterTool"
  /\ inflight' = inflight \ {[item |-> itemIndex, kind |-> "GET"]}
  /\ \/ /\ cur' = [cur EXCEPT !.err = Err(SpecFetchErrorMessage, FALSE, -1)]
        /\ failed' = Fail(itemIndex, "specfetch")
        /\ pc' = "catch"
     \/ \E doc \in SpecAnswers(profile) :
          /\ cur' = [cur EXCEPT !.spec = doc]
          /\ pc' = "route"
          /\ UNCHANGED failed
  /\ UNCHANGED <<call, result, node, profile, continueOnFail, executionId, nItems, projectValue,
                 itemIndex, returnData, raised, sent, phases, seen>>

\* the server URL check, the candidate list and the choice among it
ToolRoute ==
  /\ pc = "route" /\ node = "LeapterTool"
  /\ LET doc == cur.spec
         rawServerUrl == IF Len(doc.servers) > 0 THEN doc.servers[1] ELSE Undefined
         serverUrl == StripTrailingSlash(JsOr(rawServerUrl, EmptyStr))
         collected == CollectBlueprints(doc, serverUrl, 1)
         blueprints == collected.list
         matched == Route(blueprints, cur.action, DOMAIN cur.body)
     IN
     IF ~StartsWithHttp(serverUrl)
     THEN Throw(Err(<<"OpenAPI spec server URL is not absolute: ">> \o Tpl(rawServerUrl),
                    TRUE, itemIndex), "server")
     ELSE IF collected.st = "throw"
     THEN Throw(Err(<<"Cannot read properties of undefined">>, FALSE, -1), "ref")
     ELSE IF matched = 0
     THEN /\ cur' = [cur EXCEPT !.blueprints = blueprints,
                                !.err = Err(NoMatchMessage(cur.body, blueprints),
                                            TRUE, itemIndex)]
          /\ failed' = Fail(itemIndex, "routing")
          /\ pc' = "catch"
     ELSE /\ cur' = [cur EXCEPT !.blueprints = blueprints,
                                !.path = blueprints[matched].path,
                                !.operationUrl = blueprints[matched].operationUrl,
                                !.modelId = ModelIdOf(blueprints[matched].path)]
          /\ pc' = "build"
          /\ UNCHANGED failed
  /\ UNCHANGED <<call, result, node, profile, continueOnFail, executionId, nItems, projectValue,
                 itemIndex, returnData, raised, inflight, sent, phases, seen>>

\* the request of the tool node
ToolBuild ==
  /\ pc = "build" /\ node = "LeapterTool"
  /\ cur' = [cur EXCEPT !.request =
               [kind |-> "POST", item |-> itemIndex, method |-> <<"POST">>,
                url |-> cur.operationUrl,
                headers |-> [h \in {"X-Correlation-Id", "Content-Type"} |->
                               IF h = "X-Correlation-Id" THEN JsOr(executionId, EmptyStr)
                               ELSE <<"application/json">>],
                body |-> cur.body, timeout |-> 0]]
  /\ phases' = Phase(itemIndex, "build")
  /\ pc' = "send"
  /\ UNCHANGED <<call, result, node, profile, continueOnFail, executionId, nItems, projectValue,
                 itemIndex, returnData, raised, inflight, sent, failed, seen>>

\* typeof responseBody === 'object' && responseBody !== null ? responseBody : { result: responseBody }
ToolResultObj(body) ==
  IF body.t = "object" THEN body.o
  ELSE [k \in {"result"} |-> IF body.t = "null" THEN JNull ELSE JStr(body.s)]

\* from the response to the pushed record
ToolClassify ==
  /\ pc = "classify" /\ node = "LeapterTool"
  /\ phases' = Phase(itemIndex, "classify")
  /\ seen' = [seen EXCEPT ![itemIndex] =
                [path |-> cur.path, editorBaseUrl |-> cur.editorBaseUrl,
                 response |-> cur.response]]
  /\ LET r == cur.response
         statusCode == StatusCodeOf(r)
         errorBody == IF r.body.t = "object" THEN r.body.o ELSE EmptyObj
     IN
     IF statusCode >= 400
     THEN /\ returnData' = Append(returnData,
               ToolErrorRecord(ErrorMessageOf(errorBody, statusCode), statusCode, itemIndex))
          /\ failed' = Fail(itemIndex, "status")
     ELSE /\ returnData' = Append(returnData,
               SuccessRecord(ToolResultObj(r.body), RunIdOf(r.headers),
                             ToolEditorLink(cur.modelId, cur.editorBaseUrl), itemIndex))
          /\ UNCHANGED failed
  /\ pc' = "next"
  /\ UNCHANGED <<call, result, node, profile, continueOnFail, executionId, nItems, projectValue,
                 itemIndex, cur, raised, inflight, sent>>

\* the catch block of the tool loop: it rethrows, wrapped unless already a
\* NodeOperationError
ToolCatch ==
  /\ pc = "catch" /\ node = "LeapterTool"
  /\ raised' = IF cur.err.noe THEN cur.err ELSE WrappedError(cur.err, itemIndex)
  /\ pc' = "raised"
  /\ UNCHANGED <<call, result, node, profile, continueOnFail, executionId, nItems, projectValue,
                 itemIndex, cur, returnData, inflight, sent, phases, failed, seen>>

Next ==
  \/ Start
  \/ LoopHead
  \/ NextItem
  \/ Send
  \/ Respond
  \/ LeapterGather
  \/ LeapterBuild
  \/ LeapterClassify
  \/ LeapterCatch
  \/ ToolGather
  \/ ToolFetchSpec
  \/ ToolSpecArrives
  \/ ToolRoute
  \/ ToolBuild
  \/ ToolClassify
  \/ ToolCatch

\* batches of up to MaxItems items over a small repertoire of answers
Spec == Init /\ [][Next]_vars

\* one item over every shape of response, path and editor base
InitResponse == InitFor("response")

SpecResponse == InitResponse /\ [][Next]_vars

\* one item over every shape of node parameters and tool input
InitRequest == InitFor("request")

SpecRequest == InitRequest /\ [][Next]_vars

\* one item over documents of up to MaxCandidates path entries, every action
\* value and every set of argument keys
InitRouting == InitFor("routing")

SpecRouting == InitRouting /\ [][Next]_vars

\* ------------------------------------------------- the exported functions
\* the most characters of a drawn name, the long names apart
MaxNameLen == 3

NameChars == {"A", "b", "1", "_", "-", " ", "\t", "!"}

\* c repeated n times
Rep(c, n) == [i \in 1..n |-> c]

ShortNames == UNION {[1..n -> NameChars] : n \in 0..MaxNameLen}

\* names around the 64 characters a tool name may have
LongNames ==
  {pre \o Rep(c, n) \o post :
     pre \in {<<>>, <<"A">>, <<" ">>, <<"!">>}, post \in {<<>>, <<"Z">>, <<" ">>, <<"!">>},
     c \in {"a", " ", "!"}, n \in (MaxToolNameLen - 2)..(MaxToolNameLen + 2)}

SanitizeCalls == {[fn |-> "sanitizeToolName", name |-> n] : n \in ShortNames \cup LongNames}

\* the most names of a drawn list of tool names
MaxNames == 3

ToolNames == {<<"r", "u", "n">>, <<"r", "u", "n", "_", "1">>, <<"a">>,
              Rep("a", MaxToolNameLen), Rep("a", MaxToolNameLen - 1)}

DeduplicateCalls ==
  {[fn |-> "deduplicateToolNames", names |-> q] :
     q \in UNION {[1..n -> ToolNames] : n \in 0..MaxNames}}

Components == <<"components">>
Schemas == <<"schemas">>

\* the document whose components.schemas holds the given schemas by name
TreeOf(schemas) ==
  [p \in {<<>>, <<Components>>, <<Components, Schemas>>}
          \cup {<<Components, Schemas, <<n>>>> : n \in DOMAIN schemas} |->
     IF Len(p) = 3 THEN schemas[p[3][1]] ELSE NoNode]

\* #/components/schemas/<name>
RefTo(name) == <<"#/", "components", "/", "schemas", "/", name>>

FooSchema == ObjectSchema(<<"city">>, [n \in {"city"} |-> Typed("string")], <<"city">>)

\* components.schemas of the drawn documents: an object, an integer, a
\* reference to the object and a reference to a missing schema
SchemaTrees ==
  {TreeOf([n \in {} |-> Leaf]),
   TreeOf([n \in {"Foo"} |-> FooSchema]),
   TreeOf([n \in {"Foo", "Int", "Bar", "Bad"} |->
             CASE n = "Foo" -> FooSchema
               [] n = "Int" -> Typed("integer")
               [] n = "Bar" -> Ref(RefTo("Foo"))
               [] OTHER -> Ref(RefTo("Missing"))])}

\* the $ref texts of the drawn schemas
RefTexts ==
  {RefTo("Foo"), RefTo("Int"), RefTo("Bar"), RefTo("Bad"), RefTo("Missing"),
   <<"#/", "components", "/", "nothing", "/", "Foo">>,
   <<"#/", "missing", "/", "schemas", "/", "Foo">>,
   <<"#/", "components", "/", "schemas">>,
   <<"components", "/", "schemas", "/", "Foo">>,
   <<"#/">>, EmptyStr}

ResolveCalls ==
  {[fn |-> "resolveSchema", schema |-> sc, tree |-> t] :
     sc \in {Ref(r) : r \in RefTexts}
              \cup {Leaf, FooSchema, Typed("integer"), ArraySchema(Ref(RefTo("Int"))),
                     Described(EnumSchema(<<"a", "b">>), <<"d">>)},
     t \in SchemaTrees}

\* typeMap[openApiType || 'string'] || 'string'
mapOpenApiType(openApiType) ==
  IF openApiType \in {"integer", "number"} THEN "number"
  ELSE IF openApiType \in {"string", "boolean", "object", "array"} THEN openApiType
  ELSE "string"

\* the number a property name that is an array index stands for
ArrayIndex(name) == CHOOSE d \in 0..9 : ToString(d) = name

RECURSIVE Ascending(_)
\* the array-index names of a set in ascending numeric order
Ascending(S) ==
  IF S = {} THEN <<>>
  ELSE LET m == CHOOSE n \in S : \A o \in S : ArrayIndex(n) <= ArrayIndex(o) IN
       <<m>> \o Ascending(S \ {m})

\* the order in which Object.entries enumerates the keys of a parsed object:
\* the array-index keys in ascending order, then the others as written
ObjectEntries(names) ==
  Ascending({names[i] : i \in 1..Len(names)} \cap Digits)
    \o SelectSeq(names, LAMBDA n : n \notin Digits)

\* a membership test that looks at the first entry only
RequiredIncludesFirst(required, fieldName) == required # <<>> /\ required[1] = fieldName

\* required.includes(fieldName)
RequiredIncludes(required, fieldName) == \E i \in 1..Len(required) : required[i] = fieldName

StringsDefault == <<"[\"value1\", \"value2\"]">>
NumbersDefault == <<"[1, 2, 3]">>

\* one ResourceMapperField; options is <<>> and defaultValue Undefined when
\* the descriptor has none
Descriptor(fieldName, displayName, required, type, options, defaultValue) ==
  [id |-> <<"body.", fieldName>>, displayName |-> displayName, required |-> required,
   defaultMatch |-> FALSE, display |-> TRUE, type |-> type, options |-> options,
   canBeUsedToMatch |-> FALSE, defaultValue |-> defaultValue]

\* the descriptor pushed for one property
FieldDescriptor(fieldName, resolvedField, required) ==
  LET fieldDisplayName == IF Truthy(resolvedField.description)
                          THEN <<fieldName, " - ">> \o resolvedField.description
                          ELSE <<fieldName>>
      isRequired == RequiredIncludes(required, fieldName)
  IN
  IF resolvedField.enum # <<>>
  THEN Descriptor(fieldName, fieldDisplayName, isRequired, "options",
                  <<[i \in 1..Len(resolvedField.enum[1]) |->
                       [name |-> resolvedField.enum[1][i], value |-> resolvedField.enum[1][i]]]>>,
                  Undefined)
  ELSE IF resolvedField.type = "array"
  THEN LET itemType == IF resolvedField.items # <<>> /\ resolvedField.items[1].type # NoType
                       THEN resolvedField.items[1].type ELSE "string"
       IN Descriptor(fieldName, fieldDisplayName \o <<" (JSON array)">>, isRequired, "string",
                     <<>>, IF itemType = "string" THEN StringsDefault ELSE NumbersDefault)
  ELSE Descriptor(fieldName, fieldDisplayName, isRequired,
                  mapOpenApiType(resolvedField.type), <<>>, Undefined)

\* the catch block of getOperationFields
FieldsError(message) ==
  [st |-> "threw", message |-> <<"Failed to load operation fields: ">> \o message]

TypeErrorMessage == <<"Cannot read properties of undefined">>

RECURSIVE FieldsFrom(_, _, _, _, _)
\* the loop over Object.entries(properties), from the k-th entry on
FieldsFrom(entries, k, schema, tree, fields) ==
  IF k > Len(entries) THEN Returned(fields)
  ELSE LET res == resolveSchema(schema.fields[entries[k]], tree) IN
       IF res.st # "ok" THEN FieldsError(TypeErrorMessage)
       ELSE FieldsFrom(entries, k + 1, schema, tree,
                       Append(fields, FieldDescriptor(entries[k], res.node, schema.required)))

\* getOperationFields with the node parameters project and operation; answer
\* is what the GET of the spec URL gives
getOperationFields(project, operation, answer) ==
  IF ~Truthy(project) \/ ~Truthy(operation) THEN Returned(<<>>)
  ELSE LET method == Part(Split(operation, Sep), 1)
           path == Part(Split(operation, Sep), 2)
       IN
       IF answer.st = "throw" THEN FieldsError(answer.message)
       ELSE LET doc == answer.doc
                hits == {k \in 1..Len(doc.paths) : doc.paths[k].path = path}
            IN
            IF hits = {}
            THEN FieldsError(<<"Path ">> \o Tpl(path) \o <<" not found in spec">>)
            ELSE LET operationDef == doc.paths[CHOOSE k \in hits : TRUE].post IN
                 IF method # <<"post">> \/ ~operationDef.exists
                 THEN FieldsError(<<"Operation ">> \o Tpl(method) \o <<" ">> \o Tpl(path)
                                    \o <<" not found in spec">>)
                 ELSE IF ~operationDef.schema.present THEN Returned(<<>>)
                 ELSE LET res == resolveSchema(operationDef.schema, doc.tree) IN
                      IF res.st # "ok" THEN FieldsError(TypeErrorMessage)
                      ELSE FieldsFrom(ObjectEntries(res.node.properties), 1, res.node,
                                      doc.tree, <<>>)

\* the most properties of a drawn request-body schema
MaxProps == 2

PropNames == {"city", "b", "1"}

\* the schemas a property of a drawn request body takes
PropSchemas ==
  {Typed("string"), Described(Typed("string"), <<"d">>), Typed("integer"), Leaf,
   EnumSchema(<<"a", "b">>), ArraySchema(Typed("string")), ArraySchema(Typed("integer")),
   ArraySchema(Ref(RefTo("Int"))), Typed("array"),
   Ref(RefTo("Foo")), Ref(RefTo("Arr")), Ref(RefTo("Missing"))}

\* the request-body schemas: up to MaxProps properties under distinct names
\* in every order, each required or not
BodySchemas ==
  {ObjectSchema(names, fields, SelectSeq(names, LAMBDA n : n \in R)) :
     <<names, fields, R>> \in
       UNION {{<<q, f, R>> : f \in [{q[i] : i \in 1..Len(q)} -> PropSchemas],
                            R \in SUBSET {q[i] : i \in 1..Len(q)}} :
              q \in {q \in UNION {[1..n -> PropNames] : n \in 0..MaxProps} :
                       \A i, j \in 1..Len(q) : i # j => q[i] # q[j]}}}

\* the document of a request body, given inline or through a $ref
FieldsDoc(body, viaRef) ==
  Doc(<<ServerUrl>>,
      <<Entry(PathRuns, Op(NameSum, Undefined, FALSE,
                             IF viaRef THEN Ref(RefTo("Body")) ELSE body))>>,
      TreeOf([n \in {"Foo", "Int", "Arr", "Body"} |->
                CASE n = "Foo" -> FooSchema
                  [] n = "Int" -> Typed("integer")
                  [] n = "Arr" -> ArraySchema(Typed("integer"))
                  [] OTHER -> body]))

PostRuns == OperationValue(PathRuns, ServerUrl \o PathRuns, EditorUrl, <<"Sum">>)

ProjectP1 == ProjectValue(<<"p1">>, SpecUrl, EditorUrl, <<"Proj">>)

FieldsCalls ==
  {[fn |-> "getOperationFields", project |-> ProjectP1, operation |-> PostRuns,
    answer |-> [st |-> "ok", doc |-> FieldsDoc(body, viaRef)], body |-> body, hasBody |-> TRUE] :
     body \in BodySchemas, viaRef \in BOOLEAN}
  \cup
  {[fn |-> "getOperationFields", project |-> pv, operation |-> ov, answer |-> an,
    body |-> Leaf, hasBody |-> FALSE] :
     pv \in {ProjectP1, EmptyStr},
     ov \in {PostRuns, EmptyStr, <<"post">>,
              OperationValue(PathPlain, ServerUrl \o PathPlain, EditorUrl, <<"Sum">>)},
     an \in {[st |-> "throw", message |-> SpecFetchErrorMessage],
              [st |-> "ok", doc |-> DocEmpty], [st |-> "ok", doc |-> DocNoServer],
              [st |-> "ok", doc |-> FieldsDoc(Ref(RefTo("Missing")), FALSE)]}}

\* a Zod type: item holds zero or one type, shape the types of the fields of
\* a z.object, values the members of a z.enum
Zod(kind) ==
  [kind |-> kind, optional |-> FALSE, description |-> Undefined, item |-> <<>>,
   shape |-> <<>>, values |-> <<>>]

\* a field that is required as soon as the object requires any field
IsRequiredAny(resolved, key) == resolved.required # <<>>

\* resolved.required?.includes(key) ?? false
IsRequired(resolved, key) == \E i \in 1..Len(resolved.required) : resolved.required[i] = key

\* the end of openApiToZod: describe, then required ? zodType : zodType.optional()
Finish(zodType, resolved, required) ==
  [st |-> "ok",
   zod |-> [zodType EXCEPT !.description = IF Truthy(resolved.description)
                                           THEN resolved.description ELSE @,
                           !.optional = ~required]]

ZodThrow == [st |-> "throw", zod |-> Zod("none")]

RECURSIVE openApiToZod(_, _, _)
\* openApiToZod(schema, spec, required); st is "throw" when it throws
openApiToZod(schema, tree, required) ==
  LET res == resolveSchema(schema, tree) IN
  IF res.st # "ok" THEN ZodThrow
  ELSE LET resolved == res.node IN
    CASE resolved.type = "string" ->
           Finish(IF resolved.enum # <<>> /\ Len(resolved.enum[1]) > 0
                  THEN [Zod("enum") EXCEPT !.values = resolved.enum[1]]
                  ELSE Zod("string"), resolved, required)
      [] resolved.type \in {"integer", "number"} -> Finish(Zod("number"), resolved, required)
      [] resolved.type = "boolean" -> Finish(Zod("boolean"), resolved, required)
      [] resolved.type = "array" ->
           LET itemSchema == IF resolved.items # <<>>
                             THEN openApiToZod(resolved.items[1], tree, TRUE)
                             ELSE [st |-> "ok", zod |-> Zod("string")]
           IN IF itemSchema.st = "throw" THEN ZodThrow
              ELSE Finish([Zod("array") EXCEPT !.item = <<itemSchema.zod>>], resolved, required)
      [] resolved.type = "object" ->
           IF resolved.hasProperties
           THEN LET made == [key \in DOMAIN resolved.fields |->
                               openApiToZod(resolved.fields[key], tree,
                                            IsRequired(resolved, key))]
                IN IF \E key \in DOMAIN made : made[key].st = "throw" THEN ZodThrow
                   ELSE Finish([Zod("object") EXCEPT
                                  !.shape = [key \in DOMAIN made |-> made[key].zod]],
                               resolved, required)
           ELSE Finish(Zod("record"), resolved, required)
      [] OTHER -> Finish(Zod("string"), resolved, required)

\* buildZodSchemaFromOperation(operation, spec)
buildZodSchemaFromOperation(operation, tree) ==
  IF ~operation.schema.present THEN Returned(<<>>)
  ELSE LET res == resolveSchema(operation.schema, tree) IN
       IF res.st # "ok" THEN [st |-> "threw", message |-> TypeErrorMessage]
       ELSE LET made == [fieldName \in DOMAIN res.node.fields |->
                           openApiToZod(res.node.fields[fieldName], tree,
                                        RequiredIncludes(res.node.required, fieldName))]
            IN IF \E fieldName \in DOMAIN made : made[fieldName].st = "throw"
               THEN [st |-> "threw", message |-> TypeErrorMessage]
               ELSE Returned([fieldName \in DOMAIN made |-> made[fieldName].zod])

\* the most levels of objects and arrays under a property of a drawn body
MaxDepth == 2

\* an object with the properties a and b, a holding the given schema
ObjectAB(child, R) ==
  ObjectSchema(<<"a", "b">>, [n \in {"a", "b"} |-> IF n = "a" THEN child ELSE Typed("string")],
               SelectSeq(<<"a", "b">>, LAMBDA n : n \in R))

RECURSIVE Nested(_)
\* the schemas of at most d levels of objects and arrays
Nested(d) ==
  IF d = 0
  THEN {Typed("string"), Described(Typed("integer"), <<"d">>), Ref(RefTo("Foo")),
        Ref(RefTo("Missing"))}
  ELSE Nested(d - 1)
         \cup {ObjectAB(c, R) : c \in Nested(d - 1), R \in SUBSET {"a", "b"}}
         \cup {ArraySchema(c) : c \in Nested(d - 1)}

\* the document of the drawn bodies; Body is the body itself
ZodTree(body) ==
  TreeOf([n \in {"Foo", "Body"} |-> IF n = "Foo" THEN FooSchema ELSE body])

ZodCalls ==
  {[fn |-> "buildZodSchemaFromOperation",
    operation |-> Op(NameSum, Undefined, FALSE, IF viaRef THEN Ref(RefTo("Body")) ELSE body),
    tree |-> ZodTree(body), body |-> body, hasBody |-> TRUE] :
     body \in {ObjectAB(c, R) : c \in Nested(MaxDepth), R \in SUBSET {"a", "b"}},
     viaRef \in BOOLEAN}
  \cup
  {[fn |-> "buildZodSchemaFromOperation", operation |-> Op(NameSum, Undefined, FALSE, sc),
    tree |-> ZodTree(Leaf), body |-> Leaf, hasBody |-> FALSE] :
     sc \in {NoNode, Ref(RefTo("Missing")), Typed("string")}}

UtilCalls ==
  SanitizeCalls \cup DeduplicateCalls \cup ResolveCalls \cup FieldsCalls \cup ZodCalls

\* a call of sanitizeToolName(name)
CallSanitizeToolName ==
  /\ call.fn = "sanitizeToolName" /\ result = NoResult
  /\ result' = Returned(sanitizeToolName(call.name))
  /\ UNCHANGED <<call, node, profile, continueOnFail, executionId, nItems, projectValue,
                 itemIndex, pc, cur, returnData, raised, inflight, sent, phases,
                 failed, seen>>

\* a call of deduplicateToolNames(names)
CallDeduplicateToolNames ==
  /\ call.fn = "deduplicateToolNames" /\ result = NoResult
  /\ result' = Returned(deduplicateToolNames(call.names))
  /\ UNCHANGED <<call, node, profile, continueOnFail, executionId, nItems, projectValue,
                 itemIndex, pc, cur, returnData, raised, inflight, sent, phases,
                 failed, seen>>

\* what a call of resolveSchema gives: the schema, undefined or a TypeError
Resolved(res) ==
  IF res.st = "throw" THEN [st |-> "threw", message |-> <<"Cannot read properties of undefined">>]
  ELSE IF res.st = "undefined" THEN [st |-> "returned", undefined |-> TRUE, value |-> NoNode]
  ELSE [st |-> "returned", undefined |-> FALSE, value |-> res.node]

\* a call of resolveSchema(schema, spec)
CallResolveSchema ==
  /\ call.fn = "resolveSchema" /\ result = NoResult
  /\ result' = Resolved(resolveSchema(call.schema, call.tree))
  /\ UNCHANGED <<call, node, profile, continueOnFail, executionId, nItems, projectValue,
                 itemIndex, pc, cur, returnData, raised, inflight, sent, phases,
                 failed, seen>>

\* a call of getOperationFields, the GET of the spec URL included
CallGetOperationFields ==
  /\ call.fn = "getOperationFields" /\ result = NoResult
  /\ result' = getOperationFields(call.project, call.operation, call.answer)
  /\ UNCHANGED <<call, node, profile, continueOnFail, executionId, nItems, projectValue,
                 itemIndex, pc, cur, returnData, raised, inflight, sent, phases,
                 failed, seen>>

\* a call of buildZodSchemaFromOperation(operation, spec)
CallBuildZodSchemaFromOperation ==
  /\ call.fn = "buildZodSchemaFromOperation" /\ result = NoResult
  /\ result' = buildZodSchemaFromOperation(call.operation, call.tree)
  /\ UNCHANGED <<call, node, profile, continueOnFail, executionId, nItems, projectValue,
                 itemIndex, pc, cur, returnData, raised, inflight, sent, phases,
                 failed, seen>>

InitUtils ==
  /\ call \in UtilCalls
  /\ result = NoResult
  /\ profile = "utils"
  /\ node = "LeapterTool"
  /\ continueOnFail = FALSE
  /\ executionId = Undefined
  /\ nItems = 0
  /\ projectValue = EmptyStr
  /\ itemIndex = 0
  /\ pc = "returned"
  /\ cur = FreshCur
  /\ returnData = <<>>
  /\ raised = NoError
  /\ inflight = {}
  /\ sent = <<>>
  /\ phases = [i \in {} |-> <<>>]
  /\ failed = [i \in {} |-> "none"]
  /\ seen = [i \in {} |-> NoSeen]

NextUtils ==
  \/ CallSanitizeToolName
  \/ CallDeduplicateToolNames
  \/ CallResolveSchema
  \/ CallGetOperationFields
  \/ CallBuildZodSchemaFromOperation

\* one call of one exported function on every drawn argument
SpecUtils == InitUtils /\ [][NextUtils]_vars

\* ------------------------------------------------ discovery of operations
\* the characters of a name in the order of the root collation: punctuation,
\* digits, letters
CollationOrder ==
  <<"_", "-", ":", "!", "0", "1", "2", "3", "4", "5", "6", "7", "8", "9">> \o LowerLetters

Rank(c) == CHOOSE i \in 1..Len(CollationOrder) : CollationOrder[i] = LowerChar(c)

RECURSIVE PrimaryCompare(_, _)
\* the comparison of two names that ignores case
PrimaryCompare(a, b) ==
  IF a = <<>> /\ b = <<>> THEN 0
  ELSE IF a = <<>> THEN -1
  ELSE IF b = <<>> THEN 1
  ELSE IF Rank(a[1]) < Rank(b[1]) THEN -1
  ELSE IF Rank(a[1]) > Rank(b[1]) THEN 1
  ELSE PrimaryCompare(Tail(a), Tail(b))

RECURSIVE CaseCompare(_, _)
\* between names that differ by case only, the lower case comes first
CaseCompare(a, b) ==
  IF a = <<>> THEN 0
  ELSE IF a[1] = b[1] THEN CaseCompare(Tail(a), Tail(b))
  ELSE IF a[1] = LowerChar(a[1]) THEN -1 ELSE 1

\* a.localeCompare(b)
localeCompare(a, b) ==
  IF PrimaryCompare(a, b) # 0 THEN PrimaryCompare(a, b) ELSE CaseCompare(a, b)

\* the place of an option in a sorted list: after every option not greater
InsertByName(list, x) ==
  LET n == Cardinality({i \in 1..Len(list) : localeCompare(list[i].name, x.name) <= 0})
  IN SubSeq(list, 1, n) \o <<x>> \o SubSeq(list, n + 1, Len(list))

RECURSIVE SortByName(_)
\* returnData.sort((a, b) => a.name.localeCompare(b.name)), a stable sort
SortByName(list) ==
  IF list = <<>> THEN <<>>
  ELSE InsertByName(SortByName(SubSeq(list, 1, Len(list) - 1)), list[Len(list)])

\* an operation that is listed even when it is deprecated
ListedAlsoDeprecated(op) == op.exists

\* operation && !operation.deprecated
Listed(op) == op.exists /\ ~op.deprecated

RECURSIVE OptionsFrom(_, _, _, _)
\* the loop of fetchOperations over Object.entries(spec.paths)
OptionsFrom(doc, serverUrl, editorBaseUrl, k) ==
  IF k > Len(doc.paths) THEN <<>>
  ELSE LET path == doc.paths[k].path
           operation == doc.paths[k].post
           modelId == JsOr(ModelIdOf(path), path)
           blueprintName == JsOr(operation.summary, modelId)
           rest == OptionsFrom(doc, serverUrl, editorBaseUrl, k + 1)
       IN IF Listed(operation)
          THEN <<[name |-> blueprintName,
                  value |-> OperationValue(path, serverUrl \o path, editorBaseUrl,
                                           blueprintName)]>> \o rest
          ELSE rest

LoadError(message) == [st |-> "threw", message |-> <<"Failed to load blueprints: ">> \o message]

\* fetchOperations(context): projectValue is the node parameter project, answer
\* what the GET of the spec URL gives; the description of an option is left out
fetchOperations(project, answer) ==
  IF ~Truthy(project) THEN Returned(<<>>)
  ELSE LET editorBaseUrl == Part(Split(project, Sep), 3) IN
       IF answer.st = "throw" THEN LoadError(answer.message)
       ELSE IF Len(answer.doc.servers) = 0
       THEN LoadError(<<"OpenAPI spec must define at least one server URL">>)
       ELSE Returned(SortByName(OptionsFrom(answer.doc,
                                            StripTrailingSlash(answer.doc.servers[1]),
                                            editorBaseUrl, 1)))

\* the catch block of fetchProjects
ProjectsError(err) ==
  [st |-> "threw",
   message |-> IF err.statusCode \in {401, 403}
               THEN <<"Invalid API key or no project access. Please check your credentials.">>
               ELSE <<"Failed to load projects: ">> \o err.message]

\* fetchProjects(context): response is what the POST of the projects URL gives
fetchProjects(response) ==
  IF response.st = "throw" THEN ProjectsError(response)
  ELSE IF Len(response.projects) = 0
  THEN ProjectsError([statusCode |-> 0,
                      message |-> <<"No projects found. Ensure your API key has access to at least one project.">>])
  ELSE Returned(SortByName(
         [i \in 1..Len(response.projects) |->
            LET project == response.projects[i] IN
            [name |-> project.projectName,
             value |-> ProjectValue(project.projectId, project.specUrl,
                                    project.editorBaseUrl, project.projectName),
             description |-> <<"Project ID: ">> \o project.projectId]]))

\* const [, specUrl, editorBaseUrl] = projectValue.split('::'), with the other
\* two positions of the value
ReadProject(value) ==
  [projectId |-> Part(Split(value, Sep), 1), specUrl |-> Part(Split(value, Sep), 2),
   editorBaseUrl |-> Part(Split(value, Sep), 3), projectName |-> Part(Split(value, Sep), 4)]

\* const [method, path, operationUrl, editorBaseUrl] = operation.split('::'),
\* with the fifth position of the value
ReadOperation(value) ==
  [method |-> Part(Split(value, Sep), 1), path |-> Part(Split(value, Sep), 2),
   operationUrl |-> Part(Split(value, Sep), 3), editorBaseUrl |-> Part(Split(value, Sep), 4),
   name |-> Part(Split(value, Sep), 5)]

\* new Set(filterArray.map((v) => v.split('::')[1]))
FilterPaths(blueprintFilter) ==
  {Part(Split(blueprintFilter[i], Sep), 2) : i \in 1..Len(blueprintFilter)}

\* what supplyData keeps of one entry: the tool of the entry before the
\* tools of the entries after it; path records the path the tool was built
\* from; st is "throw" when a projection throws
ToolOf(entry, zodShape, rest) ==
  IF zodShape.st = "threw" \/ rest.st = "throw"
  THEN [st |-> "throw", list |-> <<>>]
  ELSE [st |-> "ok",
        list |-> <<[name |-> sanitizeToolName(BlueprintNameOf(entry)),
                    schema |-> zodShape.value, path |-> entry.path]>>
                   \o rest.list]

\* an entry the loop of supplyData passes over
Skipped(entry, filterPaths) ==
  ~Listed(entry.post) \/ (filterPaths # {} /\ entry.path \notin filterPaths)

RECURSIVE ToolsFrom(_, _, _)
\* the loop of supplyData over Object.entries(spec.paths)
ToolsFrom(doc, filterPaths, k) ==
  IF k > Len(doc.paths) THEN [st |-> "ok", list |-> <<>>]
  ELSE IF Skipped(doc.paths[k], filterPaths) THEN ToolsFrom(doc, filterPaths, k + 1)
  ELSE ToolOf(doc.paths[k], buildZodSchemaFromOperation(doc.paths[k].post, doc.tree),
              ToolsFrom(doc, filterPaths, k + 1))

\* the tools under the names deduplicateToolNames gives them
Renamed(list, uniqueNames) ==
  [i \in 1..Len(list) |-> [list[i] EXCEPT !.name = uniqueNames[i]]]

\* the end of supplyData, made being what the loop gave
ToolsOf(made) ==
  IF made.st = "throw" THEN [st |-> "threw", message |-> TypeErrorMessage]
  ELSE IF made.list = <<>>
  THEN [st |-> "threw",
        message |-> <<"No blueprints found in the selected project. Ensure the project has published blueprints.">>]
  ELSE Returned(Renamed(made.list,
                        deduplicateToolNames([i \in 1..Len(made.list) |-> made.list[i].name])))

SupplyError(message) == [st |-> "threw", message |-> message]

\* supplyData(itemIndex): the tools it returns, without their descriptions
supplyData(project, blueprintFilter, answer) ==
  IF ~Truthy(project)
  THEN SupplyError(<<"No project selected. Please select a project first.">>)
  ELSE LET specUrl == Part(Split(project, Sep), 2) IN
       IF ~Truthy(specUrl) \/ ~StartsWithHttp(specUrl)
       THEN SupplyError(<<"Invalid project value. Expected compound format but got: ">>
                          \o project)
       ELSE IF answer.st = "throw" THEN SupplyError(answer.message)
       ELSE IF Len(answer.doc.servers) = 0
       THEN SupplyError(<<"OpenAPI spec must define at least one server URL">>)
       ELSE IF ~StartsWithHttp(StripTrailingSlash(answer.doc.servers[1]))
       THEN SupplyError(<<"OpenAPI spec server URL must be absolute, got: ">>
                          \o answer.doc.servers[1])
       ELSE ToolsOf(ToolsFrom(answer.doc, FilterPaths(blueprintFilter), 1))

NameRun1 == <<"r", "u", "n", "_", "1">>

\* the path entries of the documents of the discovery profile: two operations
\* whose names sanitize to run, one named run_1, one deprecated and one path
\* without a post operation
DiscoveryEntries ==
  {Entry(PathOf("a"), Op(NameRun, Undefined, FALSE, Inline(<<"city">>))),
   Entry(PathOf("b"), Op(Undefined, NameRunLower, FALSE, Inline(<<"city", "day">>))),
   Entry(PathOf("h"), Op(NameRun1, Undefined, FALSE, Inline(<<"zip">>))),
   Entry(PathOf("e"), Op(NameSum, Undefined, TRUE, Inline(<<"city">>))),
   Entry(PathOf("g"), NoOp)}

DiscoveryDocs ==
  {Doc(<<ServerUrl \o <<"/">>>>, q, RootTree) :
     q \in EntryLists(DiscoveryEntries, MaxCandidates)}

DiscoveryAnswers ==
  {[st |-> "ok", doc |-> d] : d \in DiscoveryDocs}
    \cup {[st |-> "ok", doc |-> DocNoServer],
          [st |-> "throw", message |-> SpecFetchErrorMessage]}

\* the values of the node parameter blueprintFilter
BlueprintFilters ==
  {<<>>, <<OperationValue(PathOf("a"), ServerUrl \o PathOf("a"), EditorUrl, NameRun)>>,
   <<OperationValue(PathOf("e"), ServerUrl \o PathOf("e"), EditorUrl, NameSum)>>}

\* the most projects of a discovery response
MaxProjects == 2

\* the projects of the discovery responses: fields with a single colon at
\* either end, and names that hold the separator
Projects ==
  [projectId : {<<"p", "1">>, <<"p", ":">>}, specUrl : {SpecUrl},
   editorBaseUrl : {EditorUrl, <<":", "ed">>, EditorUrl \o <<":">>},
   projectName : {<<"P">>, <<"a", ":">>, <<"a", ":", ":", "b">>}]

ProjectResponses ==
  {[st |-> "ok", projects |-> q] : q \in UNION {[1..n -> Projects] : n \in 0..MaxProjects}}
    \cup {[st |-> "throw", statusCode |-> c, message |-> RequestErrorMessage] : c \in {401, 500}}

DiscoveryCalls ==
  {[fn |-> "fetchProjects", project |-> EmptyStr, response |-> r] : r \in ProjectResponses}
  \cup
  {[fn |-> "fetchOperations", project |-> pv, answer |-> an] :
     pv \in {ProjectP1, EmptyStr,
              ProjectValue(<<"p1">>, SpecUrl, EditorUrl \o <<":">>, <<"Proj">>)},
     an \in DiscoveryAnswers}
  \cup
  {[fn |-> "supplyData", project |-> pv, blueprintFilter |-> bf, answer |-> an] :
     pv \in {ProjectP1, EmptyStr, <<"p1">>}, bf \in BlueprintFilters,
     an \in DiscoveryAnswers}

\* the options loader of the project parameter is called
CallFetchProjects ==
  /\ call.fn = "fetchProjects" /\ result = NoResult
  /\ result' = fetchProjects(call.response)
  /\ UNCHANGED <<call, node, profile, continueOnFail, executionId, nItems, projectValue,
                 itemIndex, pc, cur, returnData, raised, inflight, sent, phases,
                 failed, seen>>

\* the options loader of the operation parameter is called
CallFetchOperations ==
  /\ call.fn = "fetchOperations" /\ result = NoResult
  /\ result' = fetchOperations(call.project, call.answer)
  /\ UNCHANGED <<call, node, profile, continueOnFail, executionId, nItems, projectValue,
                 itemIndex, pc, cur, returnData, raised, inflight, sent, phases,
                 failed, seen>>

\* the agent asks the node for its tools; execute is called once they exist
CallSupplyData ==
  /\ call.fn = "supplyData" /\ result = NoResult
  /\ \E made \in {supplyData(call.project, call.blueprintFilter, call.answer)} :
       /\ result' = made
       /\ pc' = IF made.st = "returned" THEN "start" ELSE pc
  /\ UNCHANGED <<call, node, profile, continueOnFail, executionId, nItems, projectValue,
                 itemIndex, cur, returnData, raised, inflight, sent, phases,
                 failed, seen>>

InitDiscovery ==
  /\ call \in DiscoveryCalls
  /\ result = NoResult
  /\ profile = "discovery"
  /\ node = "LeapterTool"
  /\ continueOnFail \in BOOLEAN
  /\ executionId = <<"exec1">>
  /\ nItems = 1
  /\ projectValue = call.project
  /\ itemIndex = 0
  /\ pc = "idle"
  /\ cur = FreshCur
  /\ returnData = <<>>
  /\ raised = NoError
  /\ inflight = {}
  /\ sent = <<>>
  /\ phases = [i \in Items |-> <<>>]
  /\ failed = [i \in Items |-> "none"]
  /\ seen = [i \in Items |-> NoSeen]

NextDiscovery ==
  \/ CallFetchProjects
  \/ CallFetchOperations
  \/ CallSupplyData
  \/ Start
  \/ LoopHead
  \/ NextItem
  \/ Send
  \/ Respond
  \/ ToolGather
  \/ ToolFetchSpec
  \/ ToolSpecArrives
  \/ ToolRoute
  \/ ToolBuild
  \/ ToolClassify
  \/ ToolCatch

\* the tools are listed, then one of them is called through execute
SpecDiscovery == InitDiscovery /\ [][NextDiscovery]_vars

\* ------------------------------------------- the projection, call by call
\* the most frames the call stack of the runtime holds
MaxStack == 6

RangeErrorMessage == <<"Maximum call stack size exceeded">>

\* the keys under which a call calls openApiToZod: the properties of the body
\* for buildZodSchemaFromOperation (the bottom frame), the items of an array
\* or the properties of an object for openApiToZod, as Object.entries gives them
KeysOf(resolved, bottom) ==
  IF bottom THEN ObjectEntries(resolved.properties)
  ELSE IF resolved.type = "array" /\ resolved.items # <<>> THEN <<"items">>
  ELSE IF resolved.type = "object" /\ resolved.hasProperties
  THEN ObjectEntries(resolved.properties)
  ELSE <<>>

\* the frame of a call: the resolved schema, the required flag it was given,
\* the keys it goes through and the types made for the keys done so far
Frame(resolved, required, bottom) ==
  [resolved |-> resolved, required |-> required, keys |-> KeysOf(resolved, bottom),
   done |-> <<>>]

OverItems(frame, bottom) == ~bottom /\ frame.resolved.type = "array"

\* the schema and the required flag of the next call of a frame
NextSchema(frame, bottom) ==
  IF OverItems(frame, bottom) THEN frame.resolved.items[1]
  ELSE frame.resolved.fields[frame.keys[Len(frame.done) + 1]]

NextRequired(frame, bottom) ==
  IF bottom THEN RequiredIncludes(frame.resolved.required, frame.keys[Len(frame.done) + 1])
  ELSE IF OverItems(frame, bottom) THEN TRUE
  ELSE IsRequired(frame.resolved, frame.keys[Len(frame.done) + 1])

\* the shape made of the types of a finished frame
ShapeOf(frame) ==
  [key \in SeqToSet(frame.keys) |->
     frame.done[CHOOSE i \in 1..Len(frame.keys) : frame.keys[i] = key]]

\* what openApiToZod returns once its calls of itself have returned
Built(frame) ==
  LET resolved == frame.resolved
      zodType ==
        CASE resolved.type = "string" ->
               IF resolved.enum # <<>> /\ Len(resolved.enum[1]) > 0
               THEN [Zod("enum") EXCEPT !.values = resolved.enum[1]]
               ELSE Zod("string")
          [] resolved.type \in {"integer", "number"} -> Zod("number")
          [] resolved.type = "boolean" -> Zod("boolean")
          [] resolved.type = "array" ->
               [Zod("array") EXCEPT !.item = IF resolved.items # <<>> THEN <<frame.done[1]>>
                                              ELSE <<Zod("string")>>]
          [] resolved.type = "object" ->
               IF resolved.hasProperties THEN [Zod("object") EXCEPT !.shape = ShapeOf(frame)]
               ELSE Zod("record")
          [] OTHER -> Zod("string")
  IN Finish(zodType, resolved, frame.required).zod

Running(stack) == [st |-> "running", stack |-> stack]

\* a runtime that starts the projection again when the stack is full
OnOverflowRetry(stack) == Running(<<[stack[1] EXCEPT !.done = <<>>]>>)

\* a call that finds the stack full: the runtime throws a RangeError
OnOverflow(stack) == [st |-> "threw", message |-> RangeErrorMessage]

\* buildZodSchemaFromOperation is entered
ProjectionStart ==
  /\ call.fn = "projection" /\ result = NoResult
  /\ \E res \in {resolveSchema(call.operation.schema, call.tree)} :
       result' =
         IF ~call.operation.schema.present THEN Returned(<<>>)
         ELSE IF res.st # "ok" THEN [st |-> "threw", message |-> TypeErrorMessage]
         ELSE Running(<<Frame(res.node, TRUE, TRUE)>>)
  /\ UNCHANGED <<call, node, profile, continueOnFail, executionId, nItems, projectValue,
                 itemIndex, pc, cur, returnData, raised, inflight, sent, phases,
                 failed, seen>>

\* what a call of openApiToZod by the top frame leads to, res being what
\* resolveSchema gives for the schema of the call
AfterCall(stack, res) ==
  IF Len(stack) >= MaxStack THEN OnOverflow(stack)
  ELSE IF res.st # "ok" THEN [st |-> "threw", message |-> TypeErrorMessage]
  ELSE Running(Append(stack, Frame(res.node, NextRequired(stack[Len(stack)], Len(stack) = 1),
                                   FALSE)))

\* the running call has keys left
Calling(stack) == Len(stack[Len(stack)].done) < Len(stack[Len(stack)].keys)

\* the running call calls openApiToZod for its next key
ZodCall ==
  /\ call.fn = "projection" /\ result.st = "running"
  /\ Calling(result.stack)
  /\ \E res \in {resolveSchema(NextSchema(result.stack[Len(result.stack)],
                                          Len(result.stack) = 1), call.tree)} :
       result' = AfterCall(result.stack, res)
  /\ UNCHANGED <<call, node, profile, continueOnFail, executionId, nItems, projectValue,
                 itemIndex, pc, cur, returnData, raised, inflight, sent, phases,
                 failed, seen>>

\* what the return of the top frame leads to: the type it built is handed to
\* its caller; the return of the bottom frame is the one of
\* buildZodSchemaFromOperation
AfterReturn(stack) ==
  IF Len(stack) = 1 THEN Returned(ShapeOf(stack[1]))
  ELSE Running([SubSeq(stack, 1, Len(stack) - 1) EXCEPT
                  ![Len(stack) - 1].done = Append(@, Built(stack[Len(stack)]))])

\* the running call has no key left and returns
ZodReturn ==
  /\ call.fn = "projection" /\ result.st = "running"
  /\ ~Calling(result.stack)
  /\ result' = AfterReturn(result.stack)
  /\ UNCHANGED <<call, node, profile, continueOnFail, executionId, nItems, projectValue,
                 itemIndex, pc, cur, returnData, raised, inflight, sent, phases,
                 failed, seen>>

\* component schemas that reference themselves: through a property, through
\* the items of an array, through each other, and as a bare $ref
CyclicSchemas ==
  [n \in {"Node", "Tree", "A", "B", "Loop", "Foo"} |->
     CASE n = "Node" -> ObjectAB(Ref(RefTo("Node")), {"a"})
       [] n = "Tree" -> ObjectAB(ArraySchema(Ref(RefTo("Tree"))), {})
       [] n = "A" -> ObjectAB(Ref(RefTo("B")), {"b"})
       [] n = "B" -> ObjectAB(ArraySchema(Ref(RefTo("A"))), {"a"})
       [] n = "Loop" -> Ref(RefTo("Loop"))
       [] OTHER -> FooSchema]

\* the request-body schemas of the projection calls
ProjectionBodies ==
  {Ref(RefTo(n)) : n \in {"Node", "Tree", "A", "B", "Loop", "Foo", "Missing"}}
    \cup {ObjectAB(c, {"a"}) :
            c \in {Ref(RefTo(n)) : n \in {"Node", "Tree", "A", "Loop", "Foo", "Missing"}}
                     \cup {ArraySchema(Ref(RefTo("Node"))), Typed("string"),
                           ObjectAB(ObjectAB(Ref(RefTo("Foo")), {}), {"b"})}}
    \cup {NoNode}

ProjectionCalls ==
  {[fn |-> "projection", operation |-> Op(NameSum, Undefined, FALSE, body),
    tree |-> TreeOf(CyclicSchemas)] : body \in ProjectionBodies}

InitProjection ==
  /\ call \in ProjectionCalls
  /\ result = NoResult
  /\ profile = "projection"
  /\ node = "LeapterTool"
  /\ continueOnFail = FALSE
  /\ executionId = Undefined
  /\ nItems = 0
  /\ projectValue = EmptyStr
  /\ itemIndex = 0
  /\ pc = "returned"
  /\ cur = FreshCur
  /\ returnData = <<>>
  /\ raised = NoError
  /\ inflight = {}
  /\ sent = <<>>
  /\ phases = [i \in {} |-> <<>>]
  /\ failed = [i \in {} |-> "none"]
  /\ seen = [i \in {} |-> NoSeen]

NextProjection ==
  \/ ProjectionStart
  \/ ZodCall
  \/ ZodReturn

\* the projection is synchronous: a call that can take a step takes it
SpecProjection == InitProjection /\ [][NextProjection]_vars /\ WF_vars(NextProjection)

\* =================================================================== claims
RecordsOf(i) == {k \in 1..Len(returnData) : returnData[k].pairedItem = i}

IsErrorRecord(r) == "error" \in DOMAIN r.json

IsSuccessRecord(r) == "_metadata" \in DOMAIN r.json /\ r.json["_metadata"].t = "object"

ItemFailed(i) == failed[i] # "none"

\* C1: Leapter.execute with continue-on-failure set and a project selected
\* never raises; when it returns, returnData has one record per input item, in
\* item order, record i is paired with item i, the record of an item that
\* failed (status >= 400, malformed parameters JSON, a thrown request error)
\* is an error record and the record of every other item is a success record
\* carrying _metadata.
C1_ContinueKeepsEveryItem ==
  (node = "Leapter" /\ continueOnFail /\ Truthy(projectValue)) =>
    /\ pc # "raised"
    /\ pc = "returned" =>
         /\ Len(returnData) = nItems
         /\ \A i \in Items :
              /\ returnData[i + 1].pairedItem = i
              /\ ItemFailed(i) => /\ IsErrorRecord(returnData[i + 1])
                                  /\ ~IsSuccessRecord(returnData[i + 1])
              /\ ~ItemFailed(i) => IsSuccessRecord(returnData[i + 1])

C1_Witness ==
  /\ node = "Leapter" /\ continueOnFail /\ pc = "returned" /\ nItems = 3
  /\ failed[0] = "none" /\ failed[1] = "status" /\ failed[2] = "none"
  /\ Len(returnData) = 3

\* C2: Leapter.execute with continue-on-failure unset: once an item has failed
\* execute is in its catch block or has raised, never returns records, the
\* raised error carries the index of that item, and no HTTP request is issued
\* for any later item.
C2_FirstFailureAborts ==
  (node = "Leapter" /\ ~continueOnFail) =>
    \A i \in Items : ItemFailed(i) =>
      /\ pc \in {"catch", "raised"}
      /\ itemIndex = i
      /\ pc = "raised" => (raised.set /\ raised.itemIndex = i)
      /\ \A k \in 1..Len(sent) : sent[k].item <= i

C2_Witness ==
  /\ node = "Leapter" /\ ~continueOnFail /\ pc = "raised" /\ nItems = 3
  /\ failed[0] = "none" /\ failed[1] = "status" /\ raised.itemIndex = 1
  /\ Len(returnData) = 1

\* C3: LeapterTool.execute honours the continue-on-failure flag: execute
\* raises an item's error only when the flag is unset, and with the flag unset
\* an item that failed (spec fetch error, routing failure, status >= 400) is
\* the last one processed.
C3_ToolHonoursFlag ==
  node = "LeapterTool" =>
    /\ (pc = "raised" /\ raised.itemIndex >= 0) => ~continueOnFail
    /\ ~continueOnFail =>
         \A i \in Items : ItemFailed(i) => (itemIndex = i /\ pc \in {"catch", "raised"})

\* C4: in both nodes at most one HTTP request is in flight, it belongs to the
\* current item, and every request that was issued for item N was issued when
\* each item before N already had its record in returnData.
C4_OneItemAtATime ==
  /\ Cardinality(inflight) <= 1
  /\ \A r \in inflight : r.item = itemIndex
  /\ \A k \in 1..Len(sent) : \A j \in 0..(sent[k].item - 1) : RecordsOf(j) # {}

C4_Witness ==
  /\ pc = "await" /\ itemIndex = 2 /\ Cardinality(inflight) = 1
  /\ Len(returnData) = 2

FourPhases == <<"gather", "build", "send", "classify">>

IsPrefix(p, q) == Len(p) <= Len(q) /\ p = SubSeq(q, 1, Len(p))

Posts(i) == Cardinality({k \in 1..Len(sent) : sent[k].item = i /\ sent[k].kind = "POST"})

\* the item has reached its terminal outcome
Finished(i) ==
  \/ i < itemIndex
  \/ i = itemIndex /\ pc = "next"
  \/ i = itemIndex /\ pc = "raised" /\ phases[i] # <<>>

Outcomes(i) ==
  Cardinality(RecordsOf(i)) + (IF raised.set /\ raised.itemIndex = i THEN 1 ELSE 0)

\* C5 as stated: every item that reached its outcome went through gather,
\* build, send and classify, each once and in that order, with at most one POST.
C5_Original ==
  \A i \in Items : Finished(i) => (phases[i] = FourPhases /\ Posts(i) <= 1)

\* C5, amended: at most one blueprint POST per item; the phases an item has
\* gone through are a prefix of gather, build, send, classify (each at most
\* once, in that order); an item whose response was classified has gone
\* through all four; every item that was processed has exactly one outcome,
\* a record or the raised error.
C5_LinearNoRetry ==
  \A i \in Items :
    /\ Posts(i) <= 1
    /\ IsPrefix(phases[i], FourPhases)
    /\ Posts(i) = Cardinality({k \in 1..Len(phases[i]) : phases[i][k] = "send"})
    /\ seen[i].response.kind = "full" => phases[i] = FourPhases
    /\ Finished(i) => Outcomes(i) = 1
    /\ ~Finished(i) => Outcomes(i) = 0

C5_Witness ==
  /\ pc = "returned" /\ nItems = 3 /\ continueOnFail
  /\ phases[0] = FourPhases /\ phases[1] = <<"gather">> /\ failed[2] = "request"
  /\ phases[2] = <<"gather", "build", "send">>

\* the records pushed for an item i that did not fail
SuccessOf(i) == IF ItemFailed(i) THEN {} ELSE RecordsOf(i)

\* the message the claim expects for a body and a status; a field counts as
\* present when it holds a non-empty string
ClaimedMessage(body, statusCode) ==
  IF Truthy(Field(body, "detail")) THEN Field(body, "detail")
  ELSE IF Truthy(Field(body, "error")) THEN Field(body, "error")
  ELSE IF Truthy(Field(body, "message")) THEN Field(body, "message")
  ELSE <<"Request failed with status ", ToString(statusCode)>>

\* C6: for every response with status >= 400 and an object body, the error
\* field of the item's record and the message of the error raised for the
\* item are the first present of the body's detail, error and message, and the
\* generic message when none is present.
C6_SurfacedMessage ==
  \A i \in Items :
    LET r == seen[i].response IN
    (r.kind = "full" /\ r.body.t = "object" /\ StatusCodeOf(r) >= 400) =>
      /\ \A k \in RecordsOf(i) :
           Field(returnData[k].json, "error") = ClaimedMessage(r.body.o, StatusCodeOf(r))
      /\ (pc = "raised" /\ raised.itemIndex = i) =>
           raised.message = ClaimedMessage(r.body.o, StatusCodeOf(r))

PathMatches(path) == ModelIdOf(path) # Undefined

LinkOf(k) == returnData[k].json["_metadata"].editorLink

\* C7: for an editor base URL that is an http(s) URL, in both nodes
\* editorLink is <editorBaseUrl>/<id> when the path matches /models/<id>/runs
\* and the bare editor base URL when it does not.
C7_EditorLinkBothNodes ==
  \A i \in Items : \A k \in SuccessOf(i) :
    StartsWithHttp(seen[i].editorBaseUrl) =>
      LinkOf(k) = IF PathMatches(seen[i].path)
                  THEN seen[i].editorBaseUrl \o <<"/">> \o ModelIdOf(seen[i].path)
                  ELSE seen[i].editorBaseUrl

\* C8: for every successful response that carries the run id under one
\* spelling of the header name x-run-id, whatever its letter case,
\* _metadata.runId is the value of that header.
C8_RunIdAnyCase ==
  \A i \in Items : \A k \in SuccessOf(i) :
    \A h \in HeaderNames :
      (DOMAIN seen[i].response.headers = {h} /\ Truthy(seen[i].response.headers[h])) =>
        returnData[k].json["_metadata"].runId = seen[i].response.headers[h]

\* C9 as stated: a success record holds every top-level field of the response
\* body with its value unchanged, plus the one added key _metadata.
C9_Original ==
  \A i \in Items : \A k \in SuccessOf(i) :
    LET b == seen[i].response.body IN
    b.t = "object" =>
      /\ \A f \in DOMAIN b.o : returnData[k].json[f] = b.o[f]
      /\ DOMAIN returnData[k].json = (DOMAIN b.o) \cup {"_metadata"}

\* C9, amended: a success record holds every top-level field of the response
\* body other than _metadata with its value unchanged, and the key _metadata
\* holding exactly runId and editorLink, which replaces a body field of that
\* name; it has no other key.
C9_BodyKeptMetadataAdded ==
  \A i \in Items : \A k \in SuccessOf(i) :
    LET b == seen[i].response.body
        json == returnData[k].json
    IN
    b.t = "object" =>
      /\ \A f \in (DOMAIN b.o) \ {"_metadata"} : json[f] = b.o[f]
      /\ DOMAIN json = (DOMAIN b.o) \cup {"_metadata"}
      /\ json["_metadata"] = JMeta(json["_metadata"].runId, json["_metadata"].editorLink)

C9_Witness ==
  /\ pc = "returned" /\ SuccessOf(0) # {}
  /\ seen[0].response.body.t = "object"
  /\ DOMAIN seen[0].response.body.o = {"data", "_metadata"}
  /\ \A k \in SuccessOf(0) : returnData[k].json["data"] = JStr(<<"r">>)

\* the candidates of the current item whose sanitized display name is the
\* identifier the action text sanitizes to, in document order
NamedBy(action) ==
  {k \in 1..Len(cur.blueprints) : cur.blueprints[k].name = sanitizeToolName(action)}

FirstOf(hits) == CHOOSE k \in hits : \A j \in hits : k <= j

\* the blueprint POST of the current item goes to candidate k: routing did not
\* fail, the operation URL is the candidate's, and so is the URL of the request
\* once it is built and of the request that was sent
PostGoesTo(k) ==
  /\ failed[itemIndex] # "routing"
  /\ cur.operationUrl = cur.blueprints[k].operationUrl
  /\ cur.request.kind = "POST" => cur.request.url = cur.blueprints[k].operationUrl
  /\ pc \in {"await", "classify", "next"} =>
       /\ sent[Len(sent)].kind = "POST"
       /\ sent[Len(sent)].item = itemIndex
       /\ sent[Len(sent)].url = cur.blueprints[k].operationUrl

\* the tool node has collected the candidates of the current item
Routed == node = "LeapterTool" /\ itemIndex \in Items /\ "action" \in DOMAIN cur.in
            /\ cur.in["action"].t = "string"

\* C10 as stated: in LeapterTool.execute, whenever the action of the input
\* sanitizes to the sanitized display name of some candidate, the POST goes to
\* the first such candidate in document order, whatever the argument keys.
C10_Original ==
  Routed => LET hits == NamedBy(cur.in["action"].s) IN
            hits # {} => PostGoesTo(FirstOf(hits))

\* C10, amended: in LeapterTool.execute, whenever the action of the input is a
\* non-empty string that sanitizes to the sanitized display name of some
\* candidate, the POST goes to the first such candidate in document order,
\* whatever the argument keys; an empty action is not matched by name.
C10_ActionRoutesByName ==
  (Routed /\ cur.in["action"].s # EmptyStr) =>
     LET hits == NamedBy(cur.in["action"].s) IN
     hits # {} => PostGoesTo(FirstOf(hits))

\* two candidates named run, the argument keys overlap the second one more, and
\* the POST was sent to the first
C10_Witness ==
  /\ Routed /\ pc = "await" /\ cur.in["action"].s = NameRun
  /\ DOMAIN cur.body = {"city", "day"}
  /\ Cardinality(NamedBy(NameRun)) = 2
  /\ cur.blueprints[FirstOf(NamedBy(NameRun))].schemaKeys = {"city"}
  /\ sent[Len(sent)].url = ServerUrl \o PathOf("a")
  /\ inflight = {[item |-> itemIndex, kind |-> "POST"]}
\* the tool node is at an item whose candidates are collected
AtToolItem == node = "LeapterTool" /\ itemIndex \in Items

\* no candidate of the current item is matched by the action: the action is
\* absent or empty, or no candidate has the name it sanitizes to
NoActionMatch == ~Truthy(cur.action) \/ NamedBy(cur.action) = {}

\* C11: in LeapterTool.execute, when no candidate matches the action and
\* exactly one candidate exists, the POST goes to that candidate, whatever its
\* schema keys and the argument keys are.
C11_SingleCandidate ==
  (AtToolItem /\ Len(cur.blueprints) = 1 /\ NoActionMatch) => PostGoesTo(1)

\* the single candidate has no schema keys, the action names nothing and the
\* POST was sent to it
C11_Witness ==
  /\ AtToolItem /\ pc = "await" /\ Len(cur.blueprints) = 1
  /\ cur.blueprints[1].schemaKeys = {} /\ cur.action = <<"z">>
  /\ DOMAIN cur.body = {"zip"}
  /\ sent[Len(sent)].kind = "POST" /\ sent[Len(sent)].url = ServerUrl \o PathOf("d")
\* the candidates of the current item that have schema keys
Keyed == {k \in 1..Len(cur.blueprints) : cur.blueprints[k].schemaKeys # {}}

\* overlap + overlap/|keys| of candidate k of Keyed, as the pair
\* <<numerator, denominator>> of a fraction
ScoreOf(k) ==
  LET keys == cur.blueprints[k].schemaKeys
      overlap == Cardinality({a \in DOMAIN cur.body : a \in keys})
  IN <<overlap * Cardinality(keys) + overlap, Cardinality(keys)>>

AtLeast(x, y) == x[1] * y[2] >= y[1] * x[2]

\* the first candidate in encounter order that attains the maximum score
FirstBest ==
  LET best == {k \in Keyed : \A j \in Keyed : AtLeast(ScoreOf(k), ScoreOf(j))} IN
  FirstOf(best)

\* C12: in LeapterTool.execute, when no candidate matches the action and two
\* or more candidates exist, the POST goes to the first candidate in encounter
\* order that attains the maximum of overlap + overlap/|keys| over the
\* candidates with schema keys; a candidate without schema keys is never
\* selected, and when no candidate has schema keys routing fails.
C12_BestScoreFirstWins ==
  (AtToolItem /\ Len(cur.blueprints) >= 2 /\ NoActionMatch) =>
     IF Keyed = {} THEN failed[itemIndex] = "routing" /\ cur.operationUrl = Undefined
     ELSE PostGoesTo(FirstBest) /\ cur.path = cur.blueprints[FirstBest].path

\* three candidates, the first without schema keys, the other two with equal
\* scores: the POST was sent to the second
C12_Witness ==
  /\ AtToolItem /\ pc = "await" /\ Len(cur.blueprints) = 3 /\ NoActionMatch
  /\ cur.blueprints[1].schemaKeys = {}
  /\ cur.blueprints[2].schemaKeys = {"zip"} /\ cur.blueprints[3].schemaKeys = {"city"}
  /\ DOMAIN cur.body = {"city", "zip"}
  /\ sent[Len(sent)].kind = "POST" /\ sent[Len(sent)].url = ServerUrl \o PathOf("c")
\* the path entries of a document that are candidates: a post operation that
\* is not deprecated
CandidatesOf(doc) == SelectSeq(doc.paths, LAMBDA e : e.post.exists /\ ~e.post.deprecated)

\* the sanitized display names of the candidates, in document order
CandidateNames(doc) ==
  [i \in 1..Len(CandidatesOf(doc)) |->
     sanitizeToolName(BlueprintNameOf(CandidatesOf(doc)[i]))]

\* the current item of the tool node is past the choice of a blueprint
PastRouting ==
  /\ AtToolItem
  /\ pc \in {"build", "send", "await", "classify", "next", "catch", "raised"}
  /\ failed[itemIndex] \notin {"config", "specfetch", "server", "ref"}

\* the text that ends the message of a routing failure
NamesListed(doc) == <<". ", "Available blueprints: ">> \o Join(CandidateNames(doc), ", ")

IsSuffix(p, q) == Len(p) <= Len(q) /\ SubSeq(q, Len(q) - Len(p) + 1, Len(q)) = p

\* C13: in LeapterTool.execute, when the document has no candidate the item
\* ends in a routing failure, no blueprint POST is issued for it and execute
\* raises a NodeOperationError carrying the item index; the message of every
\* routing failure ends with the names of all candidates.
C13_NoCandidateIsFatal ==
  PastRouting =>
    /\ CandidatesOf(cur.spec) = <<>> =>
         /\ failed[itemIndex] = "routing"
         /\ pc \in {"catch", "raised"}
         /\ \A k \in 1..Len(sent) : ~(sent[k].kind = "POST" /\ sent[k].item = itemIndex)
         /\ RecordsOf(itemIndex) = {}
    /\ failed[itemIndex] = "routing" =>
         /\ IsSuffix(NamesListed(cur.spec), cur.err.message)
         /\ pc = "raised" => /\ raised.message = cur.err.message
                              /\ raised.noe /\ raised.itemIndex = itemIndex

\* execute has raised for a document whose only path entry is deprecated and
\* an action that names nothing
C13_Witness ==
  /\ PastRouting /\ pc = "raised" /\ Len(cur.spec.paths) = 1
  /\ CandidatesOf(cur.spec) = <<>> /\ cur.action = <<"z">>
  /\ raised.message = <<"No blueprint matched the input arguments: ", "[", "\"", "city",
                         "\"", "]", ". ", "Available blueprints: ">>
\* a call of fn has returned
ReturnedFrom(fn) == call.fn = fn /\ result.st = "returned"

\* the character the i-th character of the lowercased name contributes: an
\* underscore for the first whitespace of a run, itself when it is allowed
Contribution(low, i) ==
  IF low[i] \in Whitespace
  THEN (IF i > 1 /\ low[i - 1] \in Whitespace THEN <<>> ELSE <<"_">>)
  ELSE IF low[i] \in AllowedChars THEN <<low[i]>> ELSE <<>>

RECURSIVE Contributions(_, _)
Contributions(low, i) ==
  IF i > Len(low) THEN <<>> ELSE Contribution(low, i) \o Contributions(low, i + 1)

\* C14: sanitizeToolName returns 1 to 64 characters of [a-z0-9_-]: the
\* lowercased input with each whitespace run replaced by one underscore and
\* every other disallowed character removed, cut to 64 characters, or
\* leapter_tool when that is empty.
C14_SanitizedName ==
  ReturnedFrom("sanitizeToolName") =>
    LET r == result.value
        all == Contributions(ToLowerCase(call.name), 1)
        cut == [i \in 1..(IF Len(all) > 64 THEN 64 ELSE Len(all)) |-> all[i]]
    IN /\ Len(r) >= 1 /\ Len(r) <= 64
       /\ \A i \in 1..Len(r) : r[i] \in AllowedChars
       /\ r = IF cut = <<>> THEN DefaultToolName ELSE cut

\* a name of 67 characters with a capital and a disallowed character was cut
\* to 64
C14_Witness ==
  /\ ReturnedFrom("sanitizeToolName")
  /\ call.name = <<"A">> \o Rep("a", 65) \o <<"!">>
  /\ result.value = Rep("a", 64)
\* how many names before the i-th are equal to it
RepeatsBefore(names, i) == Cardinality({j \in 1..(i - 1) : names[j] = names[i]})

FirstChars(q, n) == [i \in 1..(IF Len(q) > n THEN n ELSE Len(q)) |-> q[i]]

\* C15: deduplicateToolNames returns a list of the length of its input in
\* which the first occurrence of a name is unchanged and its k-th repeat is
\* the name followed by _k, cut to 64 characters, at the position of the repeat.
C15_Deduplicated ==
  ReturnedFrom("deduplicateToolNames") =>
    LET names == call.names
        out == result.value
    IN /\ Len(out) = Len(names)
       /\ \A i \in 1..Len(names) :
            LET k == RepeatsBefore(names, i) IN
            out[i] = IF k = 0 THEN names[i]
                     ELSE FirstChars(names[i] \o <<"_">> \o DigitsOf(k), 64)

\* a name of 63 characters given three times: both repeats are cut to the same
\* 64 characters
C15_Witness ==
  /\ ReturnedFrom("deduplicateToolNames")
  /\ call.names = <<Rep("a", 63), Rep("a", 63), Rep("a", 63)>>
  /\ result.value = <<Rep("a", 63), Rep("a", 63) \o <<"_">>, Rep("a", 63) \o <<"_">>>>
\* the keys a $ref of the form #/k1/k2/... names, <<>> when it has another form
KeysNamed(ref) ==
  IF Len(ref) >= 2 /\ ref[1] = "#/"
       /\ \A i \in 2..Len(ref) : (ref[i] = "/") <=> (i % 2 = 1)
  THEN [i \in 1..(Len(ref) \div 2) |-> <<ref[2 * i]>>]
  ELSE <<>>

\* the call of resolveSchema is on a node whose $ref has the form #/k1/k2/...
RefCall == call.fn = "resolveSchema" /\ result # NoResult /\ KeysNamed(call.schema.ref) # <<>>

\* some key of the named path is missing from the document
Dangling == \E n \in 1..Len(KeysNamed(call.schema.ref)) :
              SubSeq(KeysNamed(call.schema.ref), 1, n) \notin DOMAIN call.tree

\* C16: resolveSchema on a node whose $ref names a path with a missing key,
\* intermediate or last, raises an error; it does not return.
C16_DanglingRefRaises ==
  (RefCall /\ Dangling) => result.st = "threw"

\* C17: resolveSchema returns its argument unchanged when the node has no
\* $ref, and for a $ref #/k1/.../kn whose keys all exist it returns exactly the
\* node found under k1, ..., kn from the document root.
C17_ResolvesToNamedNode ==
  /\ (call.fn = "resolveSchema" /\ result # NoResult /\ call.schema.ref = Undefined) =>
       result = [st |-> "returned", undefined |-> FALSE, value |-> call.schema]
  /\ (RefCall /\ ~Dangling) =>
       result = [st |-> "returned", undefined |-> FALSE,
                 value |-> call.tree[KeysNamed(call.schema.ref)]]

\* #/components/schemas/Foo was resolved to the literal Foo node
C17_Witness ==
  /\ RefCall /\ call.schema.ref = RefTo("Foo")
  /\ result.st = "returned" /\ result.value = FooSchema
\* getOperationFields has returned for an operation whose request body has
\* the schema call.body, inline or behind a $ref
FieldsReturned == ReturnedFrom("getOperationFields") /\ call.hasBody

\* the position of a property name in the schema as written
WrittenAt(names, n) == CHOOSE i \in 1..Len(names) : names[i] = n

\* property a is enumerated before property b: array-index names come first,
\* in ascending order, the other names follow as written
EnumeratedBefore(names, a, b) ==
  IF a \in Digits /\ b \in Digits THEN ArrayIndex(a) < ArrayIndex(b)
  ELSE IF a \in Digits \/ b \in Digits THEN a \in Digits
  ELSE WrittenAt(names, a) < WrittenAt(names, b)

\* descriptor f is the one of property n of the body schema
DescribesProperty(f, n) ==
  /\ f.id = <<"body.", n>>
  /\ f.required = (\E r \in 1..Len(call.body.required) : call.body.required[r] = n)

\* C18 as stated: getOperationFields returns one descriptor per property of
\* the resolved request-body schema, in document property order, with id
\* body.<name> and required exactly when the name is in the required list.
C18_Original ==
  FieldsReturned =>
    LET names == call.body.properties
        fields == result.value
    IN /\ Len(fields) = Len(names)
       /\ \A i \in 1..Len(names) : DescribesProperty(fields[i], names[i])

\* C18, amended: whenever getOperationFields returns, it returns one
\* descriptor per property of the resolved request-body schema, with id
\* body.<name> and required exactly when the name is in the required list,
\* whatever the shape of the property; the descriptors of properties whose
\* names are array indices come first in ascending numeric order, the others
\* follow in document property order.
C18_OneDescriptorPerProperty ==
  FieldsReturned =>
    LET names == call.body.properties
        fields == result.value
    IN /\ Len(fields) = Len(names)
       /\ \A n \in {names[i] : i \in 1..Len(names)} :
            \E i \in 1..Len(fields) : DescribesProperty(fields[i], n)
       /\ \A i, j \in 1..Len(fields) :
            i < j => EnumeratedBefore(names, fields[i].id[2], fields[j].id[2])

\* a required enum property written before an optional array property named
\* 1: the array descriptor comes first
C18_Witness ==
  /\ FieldsReturned
  /\ call.body.properties = <<"b", "1">> /\ call.body.required = <<"b">>
  /\ call.body.fields["b"] = EnumSchema(<<"a", "b">>)
  /\ call.body.fields["1"] = ArraySchema(Typed("string"))
  /\ Len(result.value) = 2
  /\ result.value[1].id = <<"body.", "1">> /\ ~result.value[1].required
  /\ result.value[2].id = <<"body.", "b">> /\ result.value[2].required
  /\ result.value[2].type = "options"

\* the schema a node stands for once its $ref, if any, is followed
Followed(schema) ==
  IF schema.ref = Undefined THEN schema
  ELSE call.answer.doc.tree[KeysNamed(schema.ref)]

\* C19: for every array-valued property without enum, the descriptor has type
\* string and its default is ["value1", "value2"] when the items are strings
\* and [1, 2, 3] when the items have another type, given inline or through a
\* $ref.
C19_ArrayDefaultByItemType ==
  FieldsReturned =>
    \A i \in 1..Len(result.value) :
      LET f == result.value[i]
          property == Followed(call.body.fields[f.id[2]])
      IN (property.type = "array" /\ property.enum = <<>> /\ property.items # <<>>
            /\ Followed(property.items[1]).type # NoType) =>
           /\ f.type = "string"
           /\ f.defaultValue = IF Followed(property.items[1]).type = "string"
                                THEN <<"[\"value1\", \"value2\"]">>
                                ELSE <<"[1, 2, 3]">>
\* the schema a node of the projected body stands for once its $ref is followed
FollowedIn(tree, schema) ==
  IF schema.ref = Undefined THEN schema ELSE tree[KeysNamed(schema.ref)]

RECURSIVE OwnListGoverns(_, _, _)
\* below the schema, at every depth, a field of an object is non-optional
\* exactly when its name is in the required list of that object
OwnListGoverns(tree, schema, zod) ==
  LET resolved == FollowedIn(tree, schema) IN
  IF resolved.type = "object" /\ resolved.hasProperties
  THEN /\ zod.kind = "object"
       /\ DOMAIN zod.shape = {resolved.properties[i] : i \in 1..Len(resolved.properties)}
       /\ \A n \in DOMAIN zod.shape :
            /\ zod.shape[n].optional =
                 ~(\E i \in 1..Len(resolved.required) : resolved.required[i] = n)
            /\ OwnListGoverns(tree, resolved.fields[n], zod.shape[n])
  ELSE IF resolved.type = "array" /\ resolved.items # <<>>
  THEN zod.kind = "array" /\ OwnListGoverns(tree, resolved.items[1], zod.item[1])
  ELSE TRUE

\* C20: in the shape buildZodSchemaFromOperation returns, at every nesting
\* depth a field of an object schema is non-optional exactly when its name is
\* in the required list of that same object; the list of an enclosing object
\* has no effect on it.
C20_RequiredAtEveryDepth ==
  (ReturnedFrom("buildZodSchemaFromOperation") /\ call.hasBody) =>
    LET shape == result.value IN
    /\ DOMAIN shape = {"a", "b"}
    /\ \A n \in DOMAIN shape :
         /\ shape[n].optional =
              ~(\E i \in 1..Len(call.body.required) : call.body.required[i] = n)
         /\ OwnListGoverns(call.tree, call.body.fields[n], shape[n])

\* the body requires a and b, the object under a requires nothing and the
\* object under its a requires b only: a.a and a.b are optional, a.a.b is not
C20_Witness ==
  /\ ReturnedFrom("buildZodSchemaFromOperation") /\ call.hasBody
  /\ call.body = ObjectAB(ObjectAB(ObjectAB(Typed("string"), {"b"}), {}), {"a", "b"})
  /\ ~result.value["a"].optional
  /\ result.value["a"].shape["a"].optional /\ result.value["a"].shape["b"].optional
  /\ result.value["a"].shape["a"].shape["a"].optional
  /\ ~result.value["a"].shape["a"].shape["b"].optional
\* the request the current item is about to send
Building == pc = "send" /\ itemIndex \in Items

\* C21: every blueprint request execute builds uses method POST, the
\* fully-qualified URL of the operation, the headers Content-Type
\* application/json and X-Correlation-Id equal to the execution identifier
\* of the host (the empty string when there is none) and the gathered
\* parameter object as body, whatever the operation selector and the input.
C21_RequestIsPost ==
  Building =>
    /\ cur.request.method = <<"POST">>
    /\ cur.request.url = ServerUrl \o cur.path
    /\ cur.request.headers["Content-Type"] = <<"application/json">>
    /\ cur.request.headers["X-Correlation-Id"] =
         (IF executionId = Undefined THEN EmptyStr ELSE executionId)
    /\ cur.request.body = cur.body
\* the paths of a document whose post operation exists and is not deprecated
Eligible(doc) == {CandidatesOf(doc)[i].path : i \in 1..Len(CandidatesOf(doc))}

\* the paths a list of entries was made from, read by the given operator
PathsIn(list, PathIn(_)) == [i \in 1..Len(list) |-> PathIn(list[i])]

\* a list of paths that names each path of the set once and no other path
OncePerPath(paths, S) ==
  /\ SeqToSet(paths) = S
  /\ Len(paths) = Cardinality(S)

\* a list of paths that names no path outside the set and no path twice
AtMostOncePerPath(paths, S) ==
  /\ SeqToSet(paths) \subseteq S
  /\ Len(paths) = Cardinality(SeqToSet(paths))

OptionPaths == PathsIn(result.value, LAMBDA o : Part(Split(o.value, Sep), 2))
ToolPaths == PathsIn(result.value, LAMBDA t : t.path)
CandidatePaths == PathsIn(cur.blueprints, LAMBDA b : b.path)

OptionsListed == ReturnedFrom("fetchOperations") /\ Truthy(call.project)
ToolsListed == ReturnedFrom("supplyData")

\* the paths the blueprint filter of the call admits: all when it is empty
Admitted ==
  IF FilterPaths(call.blueprintFilter) = {} THEN Eligible(call.answer.doc)
  ELSE Eligible(call.answer.doc) \cap FilterPaths(call.blueprintFilter)

\* C22 as stated: fetchOperations, the tool list of supplyData and the
\* candidate list of execute each hold exactly one entry per path whose post
\* operation exists and is not deprecated, and no entry for any other path.
C22_Original ==
  /\ OptionsListed => OncePerPath(OptionPaths, Eligible(call.answer.doc))
  /\ ToolsListed => OncePerPath(ToolPaths, Eligible(call.answer.doc))
  /\ PastRouting => OncePerPath(CandidatePaths, Eligible(cur.spec))

\* C22 amended: no list of discovery holds an entry for a path without a
\* post operation that is not deprecated, nor two entries for one path;
\* fetchOperations and the candidate list of execute hold one entry for each
\* such path, the tool list of supplyData one for each such path that the
\* blueprint filter admits (every one when the filter is empty).
C22_OnlyLivePostOperations ==
  /\ OptionsListed => OncePerPath(OptionPaths, Eligible(call.answer.doc))
  /\ ToolsListed =>
       /\ AtMostOncePerPath(ToolPaths, Eligible(call.answer.doc))
       /\ OncePerPath(ToolPaths, Admitted)
  /\ PastRouting => OncePerPath(CandidatePaths, Eligible(cur.spec))

\* the document holds a deprecated operation and two live ones, the filter
\* admits one of them: one tool, two candidates
C22_Witness ==
  /\ ToolsListed /\ PastRouting
  /\ PathOf("e") \in {cur.spec.paths[k].path : k \in 1..Len(cur.spec.paths)}
  /\ call.blueprintFilter # <<>>
  /\ ToolPaths = <<PathOf("a")>>
  /\ SeqToSet(CandidatePaths) = {PathOf("a"), PathOf("b")}
\* two colons follow each other in the string
ContainsSep(s) == IndexOfSep(Colons(s), 1) # 0

EndsWithColon(s) == s # <<>> /\ Colons(s)[Len(Colons(s))] = ":"

\* the fields of a project and of an operation, in the order of their values
ProjectFieldsOf(project) ==
  <<project.projectId, project.specUrl, project.editorBaseUrl, project.projectName>>

OperationFieldsOf(entry, editorBaseUrl) ==
  <<entry.path, StripTrailingSlash(call.answer.doc.servers[1]) \o entry.path, editorBaseUrl,
    JsOr(entry.post.summary, JsOr(ModelIdOf(entry.path), entry.path))>>

NoFieldHoldsSep(fields) == \A i \in 1..Len(fields) : ~ContainsSep(fields[i])

\* no field before the last ends with a colon
NoColonBeforeSep(fields) == \A i \in 1..(Len(fields) - 1) : ~EndsWithColon(fields[i])

\* the option made from the project reads back as the project
ProjectReadsBack(project) ==
  \E i \in 1..Len(result.value) :
    /\ result.value[i].name = project.projectName
    /\ ReadProject(result.value[i].value) =
         [project EXCEPT !.projectId = Colons(@), !.specUrl = Colons(@),
                         !.editorBaseUrl = Colons(@), !.projectName = Colons(@)]

\* the option made from the path entry reads back as the operation
OperationReadsBack(entry, editorBaseUrl) ==
  LET fields == OperationFieldsOf(entry, editorBaseUrl) IN
  \E i \in 1..Len(result.value) :
    ReadOperation(result.value[i].value) =
      [method |-> <<"post">>, path |-> Colons(fields[1]), operationUrl |-> Colons(fields[2]),
       editorBaseUrl |-> Colons(fields[3]), name |-> Colons(fields[4])]

\* the round trip of the values of fetchProjects and fetchOperations for the
\* projects and operations whose fields satisfy Clean
RoundTrip(Clean(_)) ==
  /\ ReturnedFrom("fetchProjects") =>
       \A i \in 1..Len(call.response.projects) :
         Clean(ProjectFieldsOf(call.response.projects[i]))
           => ProjectReadsBack(call.response.projects[i])
  /\ OptionsListed =>
       \A k \in 1..Len(CandidatesOf(call.answer.doc)) :
         LET editorBaseUrl == ReadProject(call.project).editorBaseUrl IN
         Clean(OperationFieldsOf(CandidatesOf(call.answer.doc)[k], editorBaseUrl))
           => OperationReadsBack(CandidatesOf(call.answer.doc)[k], editorBaseUrl)

\* C23 as stated: when no field of a project or of an operation contains
\* "::", splitting the encoded value on "::" gives back each field at its
\* position.
C23_Original == RoundTrip(NoFieldHoldsSep)

\* C23 amended: when no field contains "::" and no field before the last
\* ends with a colon, splitting the encoded value on "::" gives back each
\* field at its position.
C23_RoundTrip == RoundTrip(LAMBDA fields : NoFieldHoldsSep(fields) /\ NoColonBeforeSep(fields))

\* a project whose editor base URL starts with a colon and whose name ends
\* with one is read back field by field
C23_Witness ==
  /\ ReturnedFrom("fetchProjects")
  /\ \E i \in 1..Len(call.response.projects) :
       LET project == call.response.projects[i] IN
       /\ project.editorBaseUrl = <<":", "ed">> /\ project.projectName = <<"a", ":">>
       /\ project.projectId = <<"p", "1">>
       /\ ProjectReadsBack(project)
\* the current item of the Leapter node has read its parameters in visual mode
VisualItem ==
  /\ node = "Leapter" /\ itemIndex \in Items
  /\ pc \in {"build", "send", "await", "classify", "catch"}
  /\ cur.in.inputMode = "visual"

\* the mapped keys that start with body.
BodyKeysOf(parameters) == {k \in DOMAIN parameters : k[1] = "body."}

\* the value the claim gives a mapped value in the body
Gathered(v) ==
  IF v.t # "string" THEN v
  ELSE IF Trim(v.s) \in ValidJsonTexts THEN JParsed(Trim(v.s))
  ELSE v

ToolSending == node = "LeapterTool" /\ Building

\* C25: the body of the POST of LeapterTool.execute is the object of the
\* input item without the keys sessionId, action, chatInput and toolCallId:
\* every other key of the input is in the body with its value, and the body
\* has no other key, whichever candidate is selected.
C25_BodyIsInputWithoutSystemFields ==
  ToolSending =>
    /\ DOMAIN cur.request.body =
         (DOMAIN cur.in) \ {"sessionId", "action", "chatInput", "toolCallId"}
    /\ \A k \in DOMAIN cur.request.body : cur.request.body[k] = cur.in[k]

\* an input with the four system fields, the second candidate selected by
\* its action: the body holds the three other keys
C25_Witness ==
  /\ ToolSending
  /\ DOMAIN cur.in = RequestKeys
  /\ cur.in["action"] = JStr(NameBang)
  /\ cur.request.url = ServerUrl \o PathOf("c")
  /\ DOMAIN cur.request.body = {"SessionId", "city", "zip"}
\* C26: the list deduplicateToolNames returns has pairwise distinct entries,
\* also when a name of the input already ends in a numeric suffix and when a
\* name is 64 characters long.
C26_NamesPairwiseDistinct ==
  ReturnedFrom("deduplicateToolNames") =>
    \A i, j \in 1..Len(result.value) : i # j => result.value[i] # result.value[j]
\* C27: every tool name supplyData exposes, given back as action to
\* LeapterTool.execute against the same document, is routed by the action
\* match to the path the tool was built from.
C27_ToolNameRoundTrip ==
  (ToolsListed /\ PastRouting) =>
    \A i \in 1..Len(result.value) :
      result.value[i].name = cur.action =>
        /\ failed[itemIndex] # "routing"
        /\ NamedBy(cur.action) # {}
        /\ cur.path = result.value[i].path
\* the projection has returned or thrown
ProjectionEnded == result.st \in {"returned", "threw"}

====
